---- MODULE Spec2Model ----
(***************************************************************************)
(* AEGIS: autonomous rebalancing agent for a concentrated-liquidity        *)
(* position on Algorand.                                                   *)
(*                                                                         *)
(* The module models                                                       *)
(*   - agent/aegis_agent.py: estimate_swap_cost, VolatilityModel,          *)
(*     DecisionEngine, AtomicGroupBuilder, DecisionLogger, monitoring_loop *)
(*   - contracts/aegis_position.py: the Puya vault contract                *)
(*   - contracts/deploy_teal.py: the hand-written TEAL approval program    *)
(*                                                                         *)
(* Units.  Prices and range bounds are integers in 1/1000 USD, the scale   *)
(* the contract stores them in.  Capital is in USD cents, as on chain.     *)
(* Money computed by the engine (fees, costs) is in half micro-dollars     *)
(* (1 USD = 2 000 000 units), which keeps every product of the cost model  *)
(* integral.  Hours are in hundredths of an hour, rounded down.  Time is   *)
(* in ticks, TicksPerSecond to the second, since time.time() is a float.   *)
(*                                                                         *)
(* Specifications.                                                         *)
(*   SpecEngine   one DecisionEngine, evaluate called at arbitrary times   *)
(*   SpecCadence  one DecisionEngine, evaluate called at the poll cadence  *)
(*                long enough for the volatility window to fill            *)
(*   SpecContract the Puya contract and the TEAL program, driven by the    *)
(*                same application calls                                   *)
(*   SpecLoop     monitoring_loop against the chain                        *)
(*   SpecLoopLive SpecLoop with the fairness of the sleep and the awaits   *)
(*   SpecStop     SpecLoop with KeyboardInterrupt and terminate()          *)
(*   SpecInstances several agent processes against one position            *)
(*   SpecWindow   VolatilityModel.update until the window evicts           *)
(*   SpecCost     estimate_swap_cost on a capital and its double           *)
(*   SpecLogger   DecisionLogger: log calls, failing sinks, restarts       *)
(***************************************************************************)
EXTENDS Integers, Sequences, FiniteSets, TLC

VARIABLES
    \* ---- DecisionEngine and the wall clock
    clock,                \* time.time(), in ticks
    last_rebalance_time,  \* DecisionEngine.last_rebalance_time, in ticks
    price_history,        \* DecisionEngine.vol_model.price_history
    decision,             \* the dict returned by the latest evaluate call
    evalNow,              \* `now` as read by the latest evaluate call
    evalIn,               \* what the latest evaluate call was given
    evals,                \* number of evaluate calls so far
    rebalancedAt,         \* `now` of every evaluate call that returned REBALANCE
    \* ---- the two contract implementations
    puya,                 \* global state of the Puya AegisPosition contract
    teal,                 \* global state of the TEAL approval program's app
    call,                 \* the latest application call and its outcome
    calls,                \* number of application calls so far
    flows,                \* amounts the accepted deposits and withdrawals named
    \* ---- monitoring_loop, the builder, the logger and the chain
    pc,                   \* position of monitoring_loop in its cycle
    dry_run,              \* monitoring_loop.dry_run
    cycle,                \* monitoring_loop.cycle
    position,             \* the PositionState read in this cycle
    price,                \* the price read in this cycle
    signed,               \* the signed group built in this cycle
    tx_id,                \* monitoring_loop.tx_id
    entries,              \* DecisionLogger.entries
    chain,                \* the vault application's state on the ledger
    round,                \* the ledger's round
    pool,                 \* transaction groups accepted by the node, not yet final
    groups,               \* every group the agent handed to submit_group
    loggedInCycle,        \* entries appended since the cycle began
    waited,               \* rounds wait_for_confirmation has waited
    \* ---- DecisionLogger's two sinks
    log_file,             \* the file DecisionLogger.log_file names
    persisted,            \* what the file held when it was last readable
    supabase,             \* DecisionLogger.supabase is a client (not None)
    mirror,               \* rows of the remote `decisions` table
    log_outcome,          \* the latest logger.log call and how it ended
    \* ---- several agent processes on one position
    instances,            \* per process: its engine and its cycle
    committed,            \* rebalances the vault application took, with times
    \* ---- pure functions applied to drawn inputs
    arrivals,             \* every price handed to VolatilityModel.update
    quote                 \* components of the latest estimate_swap_cost calls

engineVars == <<clock, last_rebalance_time, price_history, decision, evalNow,
                evalIn, evals, rebalancedAt>>
contractVars == <<puya, teal, call, calls, flows>>
loopVars == <<pc, dry_run, cycle, position, price, signed, tx_id, entries,
              chain, round, pool, groups, loggedInCycle, waited>>
\* the variables of the engine but the clock, of the loop but the chain
engineRest == <<last_rebalance_time, price_history, decision, evalNow, evalIn,
                evals, rebalancedAt>>
loopRest == <<pc, dry_run, cycle, position, price, signed, tx_id, entries,
              round, pool, groups, loggedInCycle, waited>>
loggerVars == <<log_file, persisted, supabase, mirror, log_outcome>>
instanceVars == <<instances, committed>>
functionVars == <<arrivals, quote>>
vars == <<engineVars, contractVars, loopVars, loggerVars, instanceVars,
          functionVars>>

(***************************************************************************)
(* Configuration: agent/config.py                                          *)
(***************************************************************************)
POLL_INTERVAL_SECONDS == 40
BUFFER_ZONE_PCT == 3
REBALANCE_COOLDOWN_SECONDS == 1800
\* COST_BENEFIT_MULTIPLIER = 2.5, kept as the fraction 5/2
COST_BENEFIT_MULTIPLIER_NUM == 5
COST_BENEFIT_MULTIPLIER_DEN == 2
VOLATILITY_WINDOW == 24
MIN_HOURS_IN_RANGE == 4

\* Resolution of the modelled clock: ticks per second.
TicksPerSecond == 2

CooldownTicks == REBALANCE_COOLDOWN_SECONDS * TicksPerSecond
PollTicks == POLL_INTERVAL_SECONDS * TicksPerSecond

\* One USD cent in money units (half micro-dollars).
MoneyPerCent == 20000

Min(a, b) == IF a <= b THEN a ELSE b
Abs(a) == IF a < 0 THEN -a ELSE a

RECURSIVE SumSeq(_)
SumSeq(s) == IF s = <<>> THEN 0 ELSE Head(s) + SumSeq(Tail(s))

RECURSIVE SumSquares(_)
SumSquares(s) == IF s = <<>> THEN 0 ELSE Head(s) * Head(s) + SumSquares(Tail(s))

\* Python's s[-n:] for n > 0: the last n elements, the whole list when shorter.
LastN(s, n) == IF Len(s) <= n THEN s ELSE SubSeq(s, Len(s) - n + 1, Len(s))

(***************************************************************************)
(* estimate_swap_cost(capital, slippage_pct): capital in cents, slippage   *)
(* in hundredths of a percent (the default 0.5 % is 50).                   *)
(*   swap_amount   = capital * 0.5                                         *)
(*   swap_fee      = swap_amount * 0.003                                   *)
(*   slippage_cost = swap_amount * (slippage_pct / 100)                    *)
(*   gas_cost      = 0.004                                                 *)
(* With capital c cents, swap_amount is c half-cents = c * 10000 units; it  *)
(* is kept in thousands of units so that 5000 USD stays within TLC's       *)
(* integers.                                                               *)
(***************************************************************************)
DefaultSlippageBp == 50
GasCost == 8000

SwapAmountK(capital) == capital * (MoneyPerCent \div 2000)

\* a fee that takes the gas of the group in
SwapFeeWithGas(capital) == SwapAmountK(capital) * 3 + GasCost

SwapFee(capital) == SwapAmountK(capital) * 3

SlippageCost(capital, slippage_bp) == (SwapAmountK(capital) * slippage_bp) \div 10

\* the cost without the gas of the atomic group
SwapCostNoGas(capital, slippage_bp) ==
    SwapFee(capital) + SlippageCost(capital, slippage_bp)

estimate_swap_cost(capital, slippage_bp) ==
    SwapFee(capital) + SlippageCost(capital, slippage_bp) + GasCost

(***************************************************************************)
(* VolatilityModel                                                         *)
(***************************************************************************)
SamplesPerHour == 90
MinSamples == 10
DefaultHours == 1200
LowVolHours == 4800
MaxHours == 16800

\* an update that turns the new sample away once the window is full
VolUpdateKeepOldest(history, window, p) ==
    IF Len(history) >= window * SamplesPerHour THEN history
    ELSE Append(history, p)

\* VolatilityModel.update
VolUpdate(history, window, p) ==
    LET appended == Append(history, p)
        max_samples == window * SamplesPerHour
    IN  IF Len(appended) > max_samples
        THEN IF max_samples = 0
             THEN appended      \* Python: s[-0:] is the whole list
             ELSE LastN(appended, max_samples)
        ELSE appended

\* a prediction computed from however few samples there are
PredictWithoutDefault(history, current, lower, upper, residue) ==
    LET recent == LastN(history, SamplesPerHour)
        n == Len(recent)
        varNum == n * SumSquares(recent) - SumSeq(recent) * SumSeq(recent)
        stdNum == IF varNum > 0 THEN varNum ELSE 1
        stdDen == IF varNum > 0 THEN n * n ELSE 1
        min_dist == Min(current - lower, upper - current)
        negligible == \/ varNum = 0 /\ residue
                      \/ 100 * SamplesPerHour * stdNum < stdDen
        hours == (min_dist * min_dist * stdDen * 100)
                     \div (SamplesPerHour * stdNum)
    IN  IF negligible THEN LowVolHours ELSE Min(hours, MaxHours)

\* VolatilityModel.predict_hours_in_range, in hundredths of an hour.
\* With n recent samples, variance = (n * sum(p^2) - sum(p)^2) / n^2 in
\* (1/1000 USD)^2; std_dev^2 is the variance, or 0.001^2 = 1 when it is 0;
\* hourly_std^2 = 90 * std_dev^2; hours = min_dist^2 / hourly_std^2.
\* The sums are floating-point: where the exact variance is 0 (all recent
\* samples equal) the computed one is 0.0 or a positive rounding residue of
\* about 1e-33 (ten samples of 0.25 give 0.0, ten of 0.18 do not).  `residue`
\* says which; with a residue hourly_std is below the 0.0001 threshold.
predict_hours_in_range(history, current, lower, upper, residue) ==
    IF Len(history) < MinSamples
    THEN DefaultHours
    ELSE LET recent == LastN(history, SamplesPerHour)
             n == Len(recent)
             varNum == n * SumSquares(recent) - SumSeq(recent) * SumSeq(recent)
             \* std_dev^2 = stdNum / stdDen
             stdNum == IF varNum > 0 THEN varNum ELSE 1
             stdDen == IF varNum > 0 THEN n * n ELSE 1
             dist_lower == current - lower
             dist_upper == upper - current
             min_dist == Min(dist_lower, dist_upper)
             \* hourly_std < 0.0001 USD = 0.1 units:  90 * std^2 < 1/100
             negligible == \/ varNum = 0 /\ residue
                           \/ 100 * SamplesPerHour * stdNum < stdDen
             hours == (min_dist * min_dist * stdDen * 100)
                          \div (SamplesPerHour * stdNum)
         IN  IF negligible THEN LowVolHours ELSE Min(hours, MaxHours)

(***************************************************************************)
(* DecisionEngine.evaluate                                                 *)
(*                                                                         *)
(* A PositionState is [lower_bound, upper_bound, capital_usdc, ...]; the   *)
(* pool state's fee_rate is the constant 0.003 of fetch_pact_pool_state.   *)
(* The returned dict is a record with exactly the dict's keys.  `reason`   *)
(* is the f-string's kind together with the number it prints.              *)
(***************************************************************************)
FeeRatePerMille == 3

\* no price counts as inside the range
InRangeNever(p, pos) == FALSE

\* in_range = position.lower_bound <= price <= position.upper_bound
in_range_of(p, pos) == pos.lower_bound <= p /\ p <= pos.upper_bound

\* no buffer zone around the boundaries
BufferNever(p, bound) == FALSE

\* abs(price - bound) / bound < BUFFER_ZONE_PCT / 100, and 999 for bound <= 0
WithinBuffer(p, bound) ==
    bound > 0 /\ 100 * Abs(p - bound) < BUFFER_ZONE_PCT * bound

\* capital * fee_rate, per day
DailyFee(capital) == capital * (MoneyPerCent \div 1000) * FeeRatePerMille

\* the guard with a cooldown one second short
CooldownGuardShort(now, last) ==
    now - last < CooldownTicks - TicksPerSecond /\ last > 0

\* the guard left out
CooldownGuardOff(now, last) == FALSE

\* GUARD 1: now - last_rebalance_time < COOLDOWN and last_rebalance_time > 0
CooldownGuard(now, last) ==
    now - last < CooldownTicks /\ last > 0

\* int(REBALANCE_COOLDOWN_SECONDS - since_last): truncation toward zero
Remaining(now, last) ==
    LET left == CooldownTicks - (now - last)
    IN  IF left >= 0 THEN left \div TicksPerSecond
        ELSE -((-left) \div TicksPerSecond)

\* an ALERT where the preemptive REBALANCE is due
AlertInstead(weekly_fee, swap_cost, hours, net_benefit) ==
    [action |-> "ALERT",
     reason |-> [kind |-> "Near boundary", value |-> hours],
     fee_projection |-> weekly_fee, swap_cost |-> swap_cost,
     hours_in_range |-> hours, confidence |-> 50]

\* lines 262-269: the dict of the preemptive in-range REBALANCE
PreemptiveDecision(weekly_fee, swap_cost, hours, net_benefit) ==
    [action |-> "REBALANCE",
     reason |-> [kind |-> "Preemptive", value |-> net_benefit],
     fee_projection |-> weekly_fee, swap_cost |-> swap_cost,
     hours_in_range |-> hours, confidence |-> 70]

\* lines 298-307: the dict of the out-of-range REBALANCE
\* new_lower = price * 0.82, new_upper = price * 1.22, in 1/100000 USD
OutOfRangeDecision(p, projected_weekly, swap_cost) ==
    [action |-> "REBALANCE",
     reason |-> [kind |-> "Out of range", value |-> projected_weekly],
     fee_projection |-> projected_weekly, swap_cost |-> swap_cost,
     hours_in_range |-> 0, confidence |-> 85,
     new_lower |-> p * 82, new_upper |-> p * 122]

\* the decision evaluate returns, given the already updated history
EvaluateDecision(history, last, now, p, pos, residue) ==
    LET in_range == in_range_of(p, pos)
        swap_cost == estimate_swap_cost(pos.capital_usdc, DefaultSlippageBp)
        daily_fee == IF in_range THEN DailyFee(pos.capital_usdc) ELSE 0
        weekly_fee == daily_fee * 7
        hours == predict_hours_in_range(history, p, pos.lower_bound,
                                        pos.upper_bound, residue)
        net_benefit == weekly_fee - swap_cost
        projected_weekly == DailyFee(pos.capital_usdc) * 7
    IN  IF CooldownGuard(now, last)
        THEN [action |-> "SKIP",
              reason |-> [kind |-> "Cooldown", value |-> Remaining(now, last)],
              fee_projection |-> 0, swap_cost |-> swap_cost,
              hours_in_range |-> 0, confidence |-> 30]
        ELSE IF ~in_range /\ (WithinBuffer(p, pos.lower_bound)
                                \/ WithinBuffer(p, pos.upper_bound))
        THEN [action |-> "HOLD",
              reason |-> [kind |-> "Buffer zone", value |-> 0],
              fee_projection |-> 0, swap_cost |-> swap_cost,
              hours_in_range |-> 0, confidence |-> 60]
        ELSE IF in_range
        THEN IF hours < MIN_HOURS_IN_RANGE * 100
             THEN IF net_benefit * COST_BENEFIT_MULTIPLIER_DEN
                        > swap_cost * COST_BENEFIT_MULTIPLIER_NUM
                  THEN PreemptiveDecision(weekly_fee, swap_cost, hours, net_benefit)
                  ELSE [action |-> "ALERT",
                        reason |-> [kind |-> "Near boundary", value |-> hours],
                        fee_projection |-> weekly_fee, swap_cost |-> swap_cost,
                        hours_in_range |-> hours, confidence |-> 50]
             ELSE [action |-> "HOLD",
                   reason |-> [kind |-> "In range", value |-> hours],
                   fee_projection |-> weekly_fee, swap_cost |-> swap_cost,
                   hours_in_range |-> hours, confidence |-> 90]
        ELSE IF projected_weekly * COST_BENEFIT_MULTIPLIER_DEN
                    > swap_cost * COST_BENEFIT_MULTIPLIER_NUM
             THEN OutOfRangeDecision(p, projected_weekly, swap_cost)
             ELSE [action |-> "SKIP",
                   reason |-> [kind |-> "Cost too high", value |-> projected_weekly],
                   fee_projection |-> projected_weekly, swap_cost |-> swap_cost,
                   hours_in_range |-> 0, confidence |-> 60]

\* the assignment made on every call, whatever it returns
StampEveryCall(d, last, stamp) == stamp

\* self.last_rebalance_time = time.time(), in the two branches that return
\* REBALANCE and nowhere else
NextRebalanceTime(d, last, stamp) ==
    IF d.action = "REBALANCE" THEN stamp ELSE last

\* The whole call: vol_model.update(price), the guards, and on REBALANCE
\* last_rebalance_time = time.time(), a second clock read `drift` ticks
\* after the first.  evalIn keeps what the call was given: the price, the
\* position, last_rebalance_time on entry and the hours the volatility
\* model predicts.
Evaluate(now, drift, residue, p, pos) ==
    LET history == VolUpdate(price_history, VOLATILITY_WINDOW, p)
        d == EvaluateDecision(history, last_rebalance_time, now, p, pos, residue)
    IN  /\ price_history' = history
        /\ decision' = d
        /\ evalNow' = now
        /\ evalIn' = [price |-> p, position |-> pos,
                      last |-> last_rebalance_time,
                      hours |-> predict_hours_in_range(history, p,
                                    pos.lower_bound, pos.upper_bound, residue)]
        /\ evals' = evals + 1
        /\ last_rebalance_time' =
               NextRebalanceTime(d, last_rebalance_time, now + drift)
        /\ IF d.action = "REBALANCE"
           THEN /\ clock' = now + drift
                /\ rebalancedAt' = Append(rebalancedAt, now)
           ELSE /\ clock' = now
                /\ UNCHANGED rebalancedAt

(***************************************************************************)
(* The vault application: contracts/aegis_position.py (Puya) and the       *)
(* approval program APPROVAL_TEAL of contracts/deploy_teal.py.             *)
(*                                                                         *)
(* An application call is a record                                         *)
(*   method   the method whose selector is ApplicationArgs[0]; "unknown"   *)
(*            for any other selector, "bare" for no arguments at all       *)
(*   sender   Txn.sender                                                   *)
(*   oc       Txn.OnCompletion                                             *)
(*   a1..a4   the uint64 arguments                                         *)
(*   agent    authorize_agent's account argument, as ARC-4 resolves it     *)
(*   raw1     the bytes of ApplicationArgs[1] of an authorize_agent call:  *)
(*            ARC-4 encodes an `account` as a one-byte index into          *)
(*            Txn.Accounts, a raw caller passes the 32-byte address        *)
(* A call returns [ok, st]: whether it is approved, and the global state   *)
(* after it (the state before it when rejected).  AVM arithmetic fails the *)
(* program on overflow and underflow; MaxUInt stands for 2^64 - 1.         *)
(***************************************************************************)
MaxUInt == 3

Creator == "CREATOR"
Agent == "AGENT"
Other == "OTHER"
Senders == {Creator, Agent, Other}
NoAddress == ""
\* the one-byte ARC-4 reference to Txn.Accounts[0]
AccountIndex == "0x01"

\* the global state after initialize (aegis_position.py:57-75)
ZeroState ==
    [status |-> "live",
     entry_price |-> 0, lower_bound |-> 0, upper_bound |-> 0,
     capital_usdc |-> 0, open_timestamp |-> 0, total_rebalances |-> 0,
     last_rebalance_timestamp |-> 0,
     deposited_algo |-> 0, deposited_usdc |-> 0,
     total_deposits |-> 0, total_withdrawals |-> 0,
     agent_address |-> NoAddress, agent_authorized |-> 0,
     total_decisions |-> 0, last_decision_timestamp |-> 0,
     last_decision_action |-> 0]

Approve(st) == [ok |-> TRUE, st |-> st]
Reject(st) == [ok |-> FALSE, st |-> st]

\* every field of the application except its existence
Fields(st) == [f \in DOMAIN st \ {"status"} |-> st[f]]

\* ---- state changes shared by the two implementations

SetPosition(st, c, ts) ==
    [st EXCEPT !.entry_price = c.a1, !.lower_bound = c.a2,
               !.upper_bound = c.a3, !.capital_usdc = c.a4,
               !.open_timestamp = ts]

Revoke(st) == [st EXCEPT !.agent_address = NoAddress, !.agent_authorized = 0]

Rebalance(st, c, ts) ==
    [st EXCEPT !.lower_bound = c.a1, !.upper_bound = c.a2,
               !.total_rebalances = @ + 1,
               !.last_rebalance_timestamp = ts,
               !.total_decisions = @ + 1,
               !.last_decision_timestamp = ts,
               !.last_decision_action = 1]

Deposit(st, c) ==
    [st EXCEPT !.deposited_algo = @ + c.a1, !.deposited_usdc = @ + c.a2,
               !.total_deposits = @ + 1]

Withdraw(st, c) ==
    [st EXCEPT !.deposited_algo = @ - c.a1, !.deposited_usdc = @ - c.a2,
               !.total_withdrawals = @ + 1]

LogDecision(st, c, ts) ==
    [st EXCEPT !.total_decisions = @ + 1,
               !.last_decision_timestamp = ts,
               !.last_decision_action = c.a1]

DepositOverflows(st, c) ==
    \/ st.deposited_algo + c.a1 > MaxUInt
    \/ st.deposited_usdc + c.a2 > MaxUInt
    \/ st.total_deposits + 1 > MaxUInt

\* ---- the Puya contract

\* the agent check without the comparison of the sender to agent_address
AnyoneOnceAuthorized(st, sender) ==
    \/ sender = Creator
    \/ st.agent_authorized = 1

\* is_creator or is_agent of trigger_rebalance and log_decision
PuyaCreatorOrAgent(st, sender) ==
    \/ sender = Creator
    \/ st.agent_authorized = 1 /\ sender = st.agent_address

\* the sender check of withdraw alone, without the two amount checks
SenderMayWithdraw(st, c) == c.sender = Creator

\* aegis_position.py:191-193
PuyaMayWithdraw(st, c) ==
    /\ c.sender = Creator
    /\ c.a1 <= st.deposited_algo
    /\ c.a2 <= st.deposited_usdc

\* The ARC-4 router puya generates accepts a method only with OnCompletion
\* NoOp, initialize only in the creating call, no bare call and no unknown
\* selector; it reads an `account` argument as an index into Txn.Accounts.
PuyaCall(st, c, ts) ==
    IF st.status # "live" \/ c.oc # "NoOp" THEN Reject(st)
    ELSE CASE c.method = "initialize" -> Reject(st)
           [] c.method = "set_position" ->
                IF c.sender = Creator THEN Approve(SetPosition(st, c, ts))
                ELSE Reject(st)
           [] c.method = "authorize_agent" ->
                IF c.sender = Creator /\ c.raw1 = AccountIndex
                THEN Approve([st EXCEPT !.agent_address = c.agent,
                                        !.agent_authorized = 1])
                ELSE Reject(st)
           [] c.method = "revoke_agent" ->
                IF c.sender = Creator THEN Approve(Revoke(st)) ELSE Reject(st)
           [] c.method = "trigger_rebalance" ->
                IF /\ PuyaCreatorOrAgent(st, c.sender)
                   /\ st.total_rebalances + 1 <= MaxUInt
                   /\ st.total_decisions + 1 <= MaxUInt
                THEN Approve(Rebalance(st, c, ts)) ELSE Reject(st)
           [] c.method = "deposit" ->
                IF DepositOverflows(st, c) THEN Reject(st)
                ELSE Approve(Deposit(st, c))
           [] c.method = "withdraw" ->
                IF PuyaMayWithdraw(st, c) /\ st.total_withdrawals + 1 <= MaxUInt
                THEN Approve(Withdraw(st, c)) ELSE Reject(st)
           [] c.method = "log_decision" ->
                IF /\ PuyaCreatorOrAgent(st, c.sender)
                   /\ st.total_decisions + 1 <= MaxUInt
                THEN Approve(LogDecision(st, c, ts)) ELSE Reject(st)
           [] c.method = "get_position" -> Approve(st)
           [] OTHER -> Reject(st)

\* ---- the TEAL approval program

\* route_initialize (deploy_teal.py:123-173): reached by `bnz route_initialize`
\* in any call whose first argument is the selector, not only from
\* handle_create
TealInitialize(st) == [f \in DOMAIN st |-> IF f = "status" THEN st[f] ELSE ZeroState[f]]

\* route_trigger_rebalance and route_log_decision: creator, or
\* agent_authorized == 1 and Sender == agent_address
TealCreatorOrAgent(st, sender) ==
    \/ sender = Creator
    \/ st.agent_authorized = 1 /\ sender = st.agent_address

\* route_withdraw: the sender check; the two subtractions fail on underflow
TealMayWithdraw(st, c) ==
    /\ c.sender = Creator
    /\ st.deposited_algo - c.a1 >= 0
    /\ st.deposited_usdc - c.a2 >= 0

\* the program's verdict and the state its app_global_put leave behind
TealProgram(st, c, ts) ==
    CASE c.method = "bare" -> Reject(st)       \* txna ApplicationArgs 0 fails
      [] c.method = "initialize" -> Approve(TealInitialize(st))
      [] c.method = "set_position" ->
           IF c.sender = Creator THEN Approve(SetPosition(st, c, ts))
           ELSE Reject(st)
      [] c.method = "authorize_agent" ->
           IF c.sender = Creator
           THEN Approve([st EXCEPT !.agent_address = c.raw1,
                                   !.agent_authorized = 1])
           ELSE Reject(st)
      [] c.method = "revoke_agent" ->
           IF c.sender = Creator THEN Approve(Revoke(st)) ELSE Reject(st)
      [] c.method = "trigger_rebalance" ->
           IF /\ TealCreatorOrAgent(st, c.sender)
              /\ st.total_rebalances + 1 <= MaxUInt
              /\ st.total_decisions + 1 <= MaxUInt
           THEN Approve(Rebalance(st, c, ts)) ELSE Reject(st)
      [] c.method = "deposit" ->
           IF DepositOverflows(st, c) THEN Reject(st)
           ELSE Approve(Deposit(st, c))
      [] c.method = "withdraw" ->
           IF TealMayWithdraw(st, c) /\ st.total_withdrawals + 1 <= MaxUInt
           THEN Approve(Withdraw(st, c)) ELSE Reject(st)
      [] c.method = "log_decision" ->
           IF /\ TealCreatorOrAgent(st, c.sender)
              /\ st.total_decisions + 1 <= MaxUInt
           THEN Approve(LogDecision(st, c, ts)) ELSE Reject(st)
      [] OTHER -> Approve(st)                  \* "int 1; return"

\* The program never reads OnCompletion: an approved call with
\* DeleteApplication removes the application, one with UpdateApplication
\* replaces its programs.
TealCall(st, c, ts) ==
    IF st.status # "live" THEN Reject(st)
    ELSE LET r == TealProgram(st, c, ts)
         IN  IF ~r.ok THEN Reject(st)
             ELSE CASE c.oc = "DeleteApplication" ->
                         Approve([r.st EXCEPT !.status = "deleted"])
                    [] c.oc = "UpdateApplication" ->
                         Approve([r.st EXCEPT !.status = "replaced"])
                    [] OTHER -> r

(***************************************************************************)
(* Values of the variables a specification does not use.                   *)
(***************************************************************************)
NoDecision == [action |-> "NONE"]
NoCall == [method |-> "none"]
NoEval == [price |-> 0]
NoPosition == [lower_bound |-> 0, upper_bound |-> 0, capital_usdc |-> 0]

\* time.time() at the construction of the engine: a positive epoch time
StartClock == 10

EngineInit ==
    /\ clock = StartClock
    /\ last_rebalance_time = 0
    /\ price_history = <<>>
    /\ decision = NoDecision
    /\ evalNow = 0
    /\ evalIn = NoEval
    /\ evals = 0
    /\ rebalancedAt = <<>>

\* nothing paid in or out
NoFlow == [in_algo |-> 0, in_usdc |-> 0, out_algo |-> 0, out_usdc |-> 0]
NoFlows == [puya |-> NoFlow, teal |-> NoFlow]

ContractIdle ==
    /\ puya = [created |-> FALSE]
    /\ teal = [created |-> FALSE]
    /\ call = NoCall
    /\ calls = 0
    /\ flows = NoFlows

LoopIdle ==
    /\ pc = "idle"
    /\ dry_run = TRUE
    /\ cycle = 0
    /\ position = NoPosition
    /\ price = 0
    /\ signed = <<>>
    /\ tx_id = "None"
    /\ entries = <<>>
    /\ chain = [created |-> FALSE]
    /\ round = 0
    /\ pool = {}
    /\ groups = <<>>
    /\ loggedInCycle = 0
    /\ waited = 0

\* the log file: absent, holding the JSON of a list of entries, or holding
\* something json.loads does not take
NoFile == [state |-> "missing"]
Unreadable == [state |-> "unreadable"]
Readable(content) == [state |-> "readable", content |-> content]

NoLogCall == [call |-> "none"]

LoggerIdle ==
    /\ log_file = NoFile
    /\ persisted = <<>>
    /\ supabase = FALSE
    /\ mirror = <<>>
    /\ log_outcome = NoLogCall

InstancesIdle ==
    /\ instances = <<>>
    /\ committed = <<>>

NoQuote == [estimated |-> FALSE]

FunctionsIdle ==
    /\ arrivals = <<>>
    /\ quote = NoQuote

RestIdle == LoggerIdle /\ InstancesIdle /\ FunctionsIdle

(***************************************************************************)
(* SpecEngine: one DecisionEngine; evaluate is called with any of a few    *)
(* prices and positions, any of a few delays after the previous call.      *)
(***************************************************************************)
MaxEvals == 4

Pos(lower, upper, capital) ==
    [lower_bound |-> lower, upper_bound |-> upper, capital_usdc |-> capital]

\* 0.180 in range; 0.250 above the range: 13.6 % beyond 0.220, 2.0 % beyond 0.245
EnginePrices == {180, 250}
\* capital 5000 USD; 0.90 and 0.91 USD lie on either side of the capital at
\* which a week of fees equals 2.5 times the swap cost (10/11 USD)
EnginePositions == {Pos(140, 220, 500000), Pos(140, 245, 500000),
                    Pos(140, 220, 90), Pos(140, 220, 91)}
\* half a second, one second, one tick less than the cooldown, the cooldown
EngineDelays == {1, TicksPerSecond, CooldownTicks - 1, CooldownTicks}

EngineEvaluate ==
    /\ evals < MaxEvals
    /\ \E delay \in EngineDelays, drift \in {0, 1}, p \in EnginePrices,
          pos \in EnginePositions :
            Evaluate(clock + delay, drift, FALSE, p, pos)
    /\ UNCHANGED <<contractVars, loopVars>>
    /\ UNCHANGED <<loggerVars, instanceVars, functionVars>>

EngineNext == EngineEvaluate

EngineSpecInit == EngineInit /\ ContractIdle /\ LoopIdle /\ RestIdle

SpecEngine == EngineSpecInit /\ [][EngineNext]_vars

(***************************************************************************)
(* SpecCadence: one DecisionEngine called once per poll interval, for long *)
(* enough that predict_hours_in_range leaves its cold-start default.       *)
(***************************************************************************)
MaxCadenceEvals == 10

\* at 0.180: [0.140, 0.220] is comfortable, [0.175, 0.220] is 0.005 from the
\* lower boundary, [0.100, 0.150] is left behind
CadencePrices == {180, 181}
CadencePositions == {Pos(140, 220, 500000), Pos(175, 220, 500000),
                     Pos(175, 220, 150), Pos(100, 150, 500000)}

CadenceEvaluate ==
    /\ evals < MaxCadenceEvals
    /\ \E p \in CadencePrices, pos \in CadencePositions, residue \in BOOLEAN :
            Evaluate(clock + PollTicks, 0, residue, p, pos)
    /\ UNCHANGED <<contractVars, loopVars>>
    /\ UNCHANGED <<loggerVars, instanceVars, functionVars>>

CadenceNext == CadenceEvaluate

SpecCadence == EngineSpecInit /\ [][CadenceNext]_vars

(***************************************************************************)
(* SpecContract: the Puya contract and the TEAL program, both created by   *)
(* Creator with initialize and left as created or as the deploy script     *)
(* leaves them, receive the same application calls, all in blocks of       *)
(* timestamp BlockTime.                                                    *)
(***************************************************************************)
MaxCalls == 2

\* Global.latest_timestamp
BlockTime == 1

OnCompletions == {"NoOp", "DeleteApplication", "UpdateApplication"}
\* deposit and withdraw (algo_amount, usdc_amount)
AmountArgs == {<<1, 0>>, <<1, 1>>, <<MaxUInt, 0>>}
\* set_position(entry, lower, upper, capital): deploy.py's values, and a
\* range that is not one
PositionArgs == {<<172, 140, 220, 500000>>, <<100, 200, 100, 0>>}
\* trigger_rebalance(new_lower, new_upper)
RangeArgs == {<<147, 219>>, <<305, 205>>}
\* log_decision(action): 0=HOLD ... 3=SKIP
ActionArgs == {0, 3}

AppCall(method, sender, oc, a1, a2, a3, a4, agent, raw1) ==
    [method |-> method, sender |-> sender, oc |-> oc,
     a1 |-> a1, a2 |-> a2, a3 |-> a3, a4 |-> a4,
     agent |-> agent, raw1 |-> raw1]

\* the amounts paid in and out so far, after call c with verdict ok
Flow(f, c, ok) ==
    CASE ok /\ c.method = "deposit" ->
            [f EXCEPT !.in_algo = @ + c.a1, !.in_usdc = @ + c.a2]
      [] ok /\ c.method = "withdraw" ->
            [f EXCEPT !.out_algo = @ + c.a1, !.out_usdc = @ + c.a2]
      [] OTHER -> f

\* what the deposits that led to state st paid in
PaidInto(st) ==
    [NoFlow EXCEPT !.in_algo = st.deposited_algo, !.in_usdc = st.deposited_usdc]

\* one application call, executed by both implementations; `call` keeps the
\* call, its two amounts and the two verdicts; `flows` adds up the amounts
\* of the accepted deposits and withdrawals
Send(c) ==
    LET rp == PuyaCall(puya, c, BlockTime)
        rt == TealCall(teal, c, BlockTime)
    IN  /\ puya' = rp.st
        /\ teal' = rt.st
        /\ call' = [method |-> c.method, sender |-> c.sender, oc |-> c.oc,
                    a1 |-> c.a1, a2 |-> c.a2,
                    puya_ok |-> rp.ok, teal_ok |-> rt.ok]
        /\ calls' = calls + 1
        /\ flows' = [puya |-> Flow(flows.puya, c, rp.ok),
                     teal |-> Flow(flows.teal, c, rt.ok)]
        /\ UNCHANGED <<engineVars, loopVars>>
        /\ UNCHANGED <<loggerVars, instanceVars, functionVars>>

CallInitialize ==
    /\ calls < MaxCalls
    /\ \E s \in Senders, oc \in OnCompletions :
        Send(AppCall("initialize", s, oc, 0, 0, 0, 0, NoAddress, NoAddress))

CallSetPosition ==
    /\ calls < MaxCalls
    /\ \E s \in Senders, oc \in OnCompletions, a \in PositionArgs :
        Send(AppCall("set_position", s, oc, a[1], a[2], a[3], a[4],
                     NoAddress, NoAddress))

\* the account named, ARC-4 encoded (an index) or passed as raw bytes
CallAuthorizeAgent ==
    /\ calls < MaxCalls
    /\ \E s \in Senders, oc \in OnCompletions, a \in {Agent, Other},
          arc4 \in BOOLEAN :
        Send(AppCall("authorize_agent", s, oc, 0, 0, 0, 0, a,
                     IF arc4 THEN AccountIndex ELSE a))

CallRevokeAgent ==
    /\ calls < MaxCalls
    /\ \E s \in Senders, oc \in OnCompletions :
        Send(AppCall("revoke_agent", s, oc, 0, 0, 0, 0, NoAddress, NoAddress))

CallTriggerRebalance ==
    /\ calls < MaxCalls
    /\ \E s \in Senders, oc \in OnCompletions, a \in RangeArgs :
        Send(AppCall("trigger_rebalance", s, oc, a[1], a[2], 0, 0,
                     NoAddress, NoAddress))

CallDeposit ==
    /\ calls < MaxCalls
    /\ \E s \in Senders, oc \in OnCompletions, a \in AmountArgs :
        Send(AppCall("deposit", s, oc, a[1], a[2], 0, 0, NoAddress, NoAddress))

CallWithdraw ==
    /\ calls < MaxCalls
    /\ \E s \in Senders, oc \in OnCompletions, a \in AmountArgs :
        Send(AppCall("withdraw", s, oc, a[1], a[2], 0, 0, NoAddress, NoAddress))

CallLogDecision ==
    /\ calls < MaxCalls
    /\ \E s \in Senders, oc \in OnCompletions, a \in ActionArgs :
        Send(AppCall("log_decision", s, oc, a, 0, 0, 0, NoAddress, NoAddress))

\* get_position, any other selector, and a call without arguments
CallOther ==
    /\ calls < MaxCalls
    /\ \E s \in Senders, oc \in OnCompletions,
          m \in {"get_position", "unknown", "bare"} :
        Send(AppCall(m, s, oc, 0, 0, 0, 0, NoAddress, NoAddress))

\* deploy.py after creation: set_position(172, 140, 220, 500000) and one
\* deposit, both by the creator
Deployed ==
    [ZeroState EXCEPT !.entry_price = 172, !.lower_bound = 140,
                      !.upper_bound = 220, !.capital_usdc = 500000,
                      !.open_timestamp = BlockTime,
                      !.deposited_algo = 1, !.deposited_usdc = 1,
                      !.total_deposits = 1]

\* deploy.py with AGENT_MNEMONIC set: authorize_agent(agent_addr)
DeployedWithAgent ==
    [Deployed EXCEPT !.agent_address = Agent, !.agent_authorized = 1]

Deployments == {ZeroState, Deployed, DeployedWithAgent}

ContractInit ==
    /\ \E d \in Deployments :
          /\ puya = d /\ teal = d
          /\ flows = [puya |-> PaidInto(d), teal |-> PaidInto(d)]
    /\ call = NoCall
    /\ calls = 0

EngineIdle ==
    /\ clock = StartClock
    /\ last_rebalance_time = 0
    /\ price_history = <<>>
    /\ decision = NoDecision
    /\ evalNow = 0
    /\ evalIn = NoEval
    /\ evals = 0
    /\ rebalancedAt = <<>>

ContractSpecInit == ContractInit /\ EngineIdle /\ LoopIdle /\ RestIdle

ContractNext ==
    \/ CallInitialize
    \/ CallSetPosition
    \/ CallAuthorizeAgent
    \/ CallRevokeAgent
    \/ CallTriggerRebalance
    \/ CallDeposit
    \/ CallWithdraw
    \/ CallLogDecision
    \/ CallOther

SpecContract == ContractSpecInit /\ [][ContractNext]_vars

(***************************************************************************)
(* SpecVault: the two implementations, created and left as in             *)
(* SpecContract, receive deposit and withdraw calls only, from every       *)
(* sender and with every OnCompletion.                                     *)
(***************************************************************************)
MaxVaultCalls == 4

VaultDeposit ==
    /\ calls < MaxVaultCalls
    /\ \E s \in Senders, oc \in OnCompletions, a \in AmountArgs :
        Send(AppCall("deposit", s, oc, a[1], a[2], 0, 0, NoAddress, NoAddress))

VaultWithdraw ==
    /\ calls < MaxVaultCalls
    /\ \E s \in Senders, oc \in OnCompletions, a \in AmountArgs :
        Send(AppCall("withdraw", s, oc, a[1], a[2], 0, 0, NoAddress, NoAddress))

VaultNext ==
    \/ VaultDeposit
    \/ VaultWithdraw

SpecVault == ContractSpecInit /\ [][VaultNext]_vars

(***************************************************************************)
(* AtomicGroupBuilder (agent/aegis_agent.py).  A transaction is a record   *)
(* of its type, receiver or application, note, arguments, validity rounds  *)
(* and group id; a signed transaction pairs it with the signing key.       *)
(***************************************************************************)
\* wait_for_confirmation(algod_client, txid, 4)
WaitRounds == 4
\* rounds a transaction stays valid after suggested_params (1000 on chain)
ValidRounds == 5

NoGroup == <<>>

Txn(type, receiver, note, args, fv) ==
    [type |-> type, sender |-> Agent, receiver |-> receiver, note |-> note,
     args |-> args, fv |-> fv, lv |-> fv + ValidRounds, group |-> NoGroup]

\* int(x * 1000) of a float x given in 1/100000 USD: the binary product of
\* a value that is a whole number of thousandths may fall just below it
ScaledArg(x, below) ==
    IF below /\ x % 100 = 0 THEN (x \div 100) - 1 ELSE x \div 100

\* (0).to_bytes(8, "big"): the minimum output the swap call names
MinSwapOutput == 0

\* app_args of txn3
SwapArgs == <<"swap", "fixed-input", MinSwapOutput>>

\* the same five transactions with the redeposit ahead of the swap
BuildTxnsDepositFirst(new_lower, new_upper, below, fv) ==
    << Txn("pay", "agent", "aegis:pact_withdraw", <<>>, fv),
       Txn("pay", "tinyman_pool", "aegis:tinyman_swap_input", <<>>, fv),
       Txn("pay", "agent", "aegis:pact_deposit_new_range", <<>>, fv),
       Txn("appl", "tinyman_app", "aegis:tinyman_swap_execute", SwapArgs, fv),
       Txn("appl", "aegis_app", "trigger_rebalance",
           <<ScaledArg(new_lower, below), ScaledArg(new_upper, below)>>, fv) >>

\* txn1 .. txn5 in the order build_rebalance_group appends them to txns
BuildTxns(new_lower, new_upper, below, fv) ==
    << Txn("pay", "agent", "aegis:pact_withdraw", <<>>, fv),
       Txn("pay", "tinyman_pool", "aegis:tinyman_swap_input", <<>>, fv),
       Txn("appl", "tinyman_app", "aegis:tinyman_swap_execute", SwapArgs, fv),
       Txn("pay", "agent", "aegis:pact_deposit_new_range", <<>>, fv),
       Txn("appl", "aegis_app", "trigger_rebalance",
           <<ScaledArg(new_lower, below), ScaledArg(new_upper, below)>>, fv) >>

\* transaction.calculate_group_id: a digest of the transactions, which
\* differ from one group to another in their validity rounds and arguments
CalculateGroupId(txns) == <<"gid", txns[1].fv, txns[Len(txns)].args>>

\* the transactions as they are without `t.group = gid`
LeaveUngrouped(txns) == txns

\* gid = calculate_group_id(txns); for t in txns: t.group = gid
AssignGroup(txns) ==
    [i \in DOMAIN txns |-> [txns[i] EXCEPT !.group = CalculateGroupId(txns)]]

\* signed = [t.sign(self.agent_private_key) for t in txns]
Sign(txns) == [i \in DOMAIN txns |-> [txn |-> txns[i], sig |-> Agent]]

build_rebalance_group(new_lower, new_upper, below, fv) ==
    Sign(AssignGroup(BuildTxns(new_lower, new_upper, below, fv)))

\* the operation a transaction of the group stands for
Operation(t) ==
    CASE t.note = "aegis:pact_withdraw" -> "withdraw"
      [] t.note = "aegis:tinyman_swap_input" -> "transfer"
      [] t.note = "aegis:tinyman_swap_execute" -> "swap"
      [] t.note = "aegis:pact_deposit_new_range" -> "deposit"
      [] t.type = "appl" /\ t.receiver = "aegis_app" -> "commit"
      [] OTHER -> "other"

Operations(batch) == [i \in DOMAIN batch |-> Operation(batch[i].txn)]

(***************************************************************************)
(* The ledger, as submit_group relies on it: transactions that carry one   *)
(* group id take effect together or not at all; a transaction without a    *)
(* group id stands alone.  A payment of the funded agent succeeds, the     *)
(* Tinyman call succeeds or fails, the call to the vault application is    *)
(* decided by the contract.                                                *)
(***************************************************************************)
Grouped(batch) ==
    \A i \in DOMAIN batch :
        /\ batch[i].txn.group # NoGroup
        /\ batch[i].txn.group = batch[1].txn.group

CommitCall(t) ==
    AppCall("trigger_rebalance", t.sender, "NoOp", t.args[1], t.args[2], 0, 0,
            NoAddress, NoAddress)

TxnOk(t, st, swap_ok, ts) ==
    CASE t.type = "pay" -> TRUE
      [] t.receiver = "tinyman_app" -> swap_ok
      [] OTHER -> PuyaCall(st, CommitCall(t), ts).ok

\* the transactions of the batch that take effect
Applied(batch, st, swap_ok, ts) ==
    LET oks == {i \in DOMAIN batch : TxnOk(batch[i].txn, st, swap_ok, ts)}
    IN  IF Grouped(batch)
        THEN IF oks = DOMAIN batch THEN DOMAIN batch ELSE {}
        ELSE oks

\* the application's state after the batch
Ledger(batch, st, swap_ok, ts) ==
    LET commits == {i \in Applied(batch, st, swap_ok, ts) :
                        Operation(batch[i].txn) = "commit"}
    IN  IF commits = {} THEN st
        ELSE PuyaCall(st, CommitCall(batch[CHOOSE i \in commits : TRUE].txn), ts).st

(***************************************************************************)
(* SpecLoop: monitoring_loop in dry-run or live mode, its builder and      *)
(* logger, and the ledger holding the vault application deploy.py left,    *)
(* with or without the agent authorized.                                   *)
(***************************************************************************)
MaxCycles == 2
MaxRounds == 5

\* in range, above and below the deployed range [0.140, 0.220]
LoopPrices == {180, 250, 100}

\* read_position_state: the application's global state, or the defaults of
\* PositionState when the read fails
ReadPosition(st, read_ok) ==
    IF read_ok THEN Pos(st.lower_bound, st.upper_bound, st.capital_usdc)
    ELSE Pos(140, 220, 500000)

\* decision.get("new_lower", price * 0.82), in 1/100000 USD
NewLower(d, p) == IF "new_lower" \in DOMAIN d THEN d.new_lower ELSE p * 82
NewUpper(d, p) == IF "new_upper" \in DOMAIN d THEN d.new_upper ELSE p * 122

\* the decision as evaluate returned it
NotDowngraded(d) == d

\* decision["action"] = "SKIP"; decision["reason"] += " (reverted)"
Reverted(d) ==
    [d EXCEPT !.action = "SKIP",
              !.reason = [kind |-> d.reason.kind, value |-> d.reason.value,
                          reverted |-> TRUE]]

(***************************************************************************)
(* DecisionLogger: entries in memory, the JSON file (the primary sink) and *)
(* the Supabase table (the secondary sink).                                *)
(***************************************************************************)
\* int(time.time())
Timestamp(now) == now \div TicksPerSecond

\* the entry DecisionLogger.log appends
Entry(d, p, id, ts) ==
    [timestamp |-> ts, price |-> p, action |-> d.action, reason |-> d.reason,
     tx_id |-> id]

\* _load: the list in the file; the empty list when there is no file or
\* json.loads raises
Load(file) == IF file.state = "readable" THEN file.content ELSE <<>>

\* _save: write_text(json.dumps(self.entries))
Save(es) == Readable(es)

\* a write to the table whose exception is let through
WriteSupabaseUncaught(connected, remote_ok, rows, entry) ==
    [raised |-> connected /\ ~remote_ok,
     rows |-> IF connected /\ remote_ok THEN Append(rows, entry) ELSE rows]

\* _write_supabase: nothing without a client; the insert, and a warning in
\* the process log when it raises
WriteSupabase(connected, remote_ok, rows, entry) ==
    [raised |-> FALSE,
     rows |-> IF connected /\ remote_ok THEN Append(rows, entry) ELSE rows]

\* how the secondary write of a log call went
Secondary(connected, remote_ok) ==
    IF ~connected THEN "off" ELSE IF remote_ok THEN "written" ELSE "failed"

\* log(decision, price, tx_id) at time `now`: append, _save, _write_supabase
LoggerLog(d, p, id, now, remote_ok) ==
    LET entry == Entry(d, p, id, Timestamp(now))
        w == WriteSupabase(supabase, remote_ok, mirror, entry)
    IN  /\ entries' = Append(entries, entry)
        /\ log_file' = Save(Append(entries, entry))
        /\ persisted' = Append(entries, entry)
        /\ mirror' = w.rows
        /\ log_outcome' = [call |-> "log", entry |-> entry,
                           secondary |-> Secondary(supabase, remote_ok),
                           raised |-> w.raised]
        /\ UNCHANGED supabase

Submitted(batch) == [signed |-> batch, reported |-> "pending", applied |-> {}]

\* steps 1 to 3 of a cycle: read the position and the price, evaluate
ReadAndEvaluate ==
    /\ pc = "start"
    /\ cycle < MaxCycles
    /\ \E read_ok \in BOOLEAN, p \in LoopPrices :
        /\ position' = ReadPosition(chain, read_ok)
        /\ price' = p
        /\ Evaluate(clock, 0, FALSE, p, ReadPosition(chain, read_ok))
    /\ cycle' = cycle + 1
    /\ loggedInCycle' = 0
    /\ tx_id' = "None"
    /\ pc' = IF decision'.action = "REBALANCE" /\ ~dry_run THEN "build" ELSE "log"
    /\ UNCHANGED <<dry_run, signed, entries, chain, round, pool, groups, waited>>
    /\ UNCHANGED contractVars
    /\ UNCHANGED <<loggerVars, instanceVars, functionVars>>

\* fetch_live_price returns what the feed holds under "price", math.sqrt of
\* a value that is no number (or a negative one) raises in
\* fetch_pact_pool_state; the except clause of the loop writes the error to
\* the process log
FetchRaises ==
    /\ pc = "start"
    /\ cycle < MaxCycles
    /\ \E read_ok \in BOOLEAN : position' = ReadPosition(chain, read_ok)
    /\ cycle' = cycle + 1
    /\ loggedInCycle' = 0
    /\ pc' = "sleep"
    /\ UNCHANGED <<dry_run, price, signed, tx_id, entries, chain, round, pool,
                   groups, waited>>
    /\ UNCHANGED <<engineVars, contractVars>>
    /\ UNCHANGED <<loggerVars, instanceVars, functionVars>>

\* builder.build_rebalance_group(new_lower, new_upper, position)
Build ==
    /\ pc = "build"
    /\ \E below \in BOOLEAN :
        signed' = build_rebalance_group(NewLower(decision, price),
                                        NewUpper(decision, price), below, round)
    /\ pc' = "submit"
    /\ UNCHANGED <<dry_run, cycle, position, price, tx_id, entries, chain,
                   round, pool, groups, loggedInCycle, waited>>
    /\ UNCHANGED <<engineVars, contractVars>>
    /\ UNCHANGED <<loggerVars, instanceVars, functionVars>>

\* algod_client.suggested_params() raises: the node cannot be reached
BuildRaises ==
    /\ pc = "build"
    /\ pc' = "sleep"
    /\ UNCHANGED <<dry_run, cycle, position, price, signed, tx_id, entries,
                   chain, round, pool, groups, loggedInCycle, waited>>
    /\ UNCHANGED <<engineVars, contractVars>>
    /\ UNCHANGED <<loggerVars, instanceVars, functionVars>>

\* the group handed to the node and the cycle left to end without the
\* confirmation wait and the log
SendDetached ==
    /\ pc = "submit"
    /\ groups' = (cycle :> Submitted(signed)) @@ groups
    /\ pool' = pool \cup {cycle}
    /\ waited' = 0
    /\ pc' = "sleep"
    /\ UNCHANGED <<dry_run, cycle, position, price, signed, tx_id, entries,
                   chain, round, loggedInCycle>>
    /\ UNCHANGED <<engineVars, contractVars>>
    /\ UNCHANGED <<loggerVars, instanceVars, functionVars>>

\* submit_group: send_transactions returns the id, the node holds the group
SendAccepted ==
    /\ pc = "submit"
    /\ groups' = (cycle :> Submitted(signed)) @@ groups
    /\ pool' = pool \cup {cycle}
    /\ waited' = 0
    /\ pc' = "wait"
    /\ UNCHANGED <<dry_run, cycle, position, price, signed, tx_id, entries,
                   chain, round, loggedInCycle>>
    /\ UNCHANGED <<engineVars, contractVars>>
    /\ UNCHANGED <<loggerVars, instanceVars, functionVars>>

\* the outcome monitoring_loop draws from submit_group returning None
ReportFailure ==
    /\ tx_id' = "None"
    /\ decision' = Reverted(decision)
    /\ pc' = "log"
    /\ UNCHANGED <<clock, last_rebalance_time, price_history, evalNow, evalIn,
                   evals, rebalancedAt>>

\* submit_group: send_transactions raises, the node does not take the group
SendFails ==
    /\ pc = "submit"
    /\ groups' = (cycle :> [Submitted(signed) EXCEPT !.reported = "failed"]) @@ groups
    /\ ReportFailure
    /\ UNCHANGED <<dry_run, cycle, position, price, signed, entries, chain,
                   round, pool, loggedInCycle, waited>>
    /\ UNCHANGED contractVars
    /\ UNCHANGED <<loggerVars, instanceVars, functionVars>>

\* submit_group: wait_for_confirmation finds the first transaction confirmed
WaitConfirmed ==
    /\ pc = "wait"
    /\ 1 \in groups[cycle].applied
    /\ groups' = [groups EXCEPT ![cycle].reported = "confirmed"]
    /\ tx_id' = "TXID"
    /\ pc' = "log"
    /\ UNCHANGED <<dry_run, cycle, position, price, signed, entries, chain,
                   round, pool, loggedInCycle, waited>>
    /\ UNCHANGED <<engineVars, contractVars>>
    /\ UNCHANGED <<loggerVars, instanceVars, functionVars>>

\* submit_group: wait_for_confirmation raises, because the node dropped the
\* group or because WaitRounds rounds passed without a confirmation
WaitFails ==
    /\ pc = "wait"
    /\ ~(1 \in groups[cycle].applied)
    /\ cycle \notin pool \/ waited >= WaitRounds
    /\ groups' = [groups EXCEPT ![cycle].reported = "failed"]
    /\ ReportFailure
    /\ UNCHANGED <<dry_run, cycle, position, price, signed, entries, chain,
                   round, pool, loggedInCycle, waited>>
    /\ UNCHANGED contractVars
    /\ UNCHANGED <<loggerVars, instanceVars, functionVars>>

\* step 5: logger.log(decision, price, tx_id)
Log ==
    /\ pc = "log"
    /\ LoggerLog(decision, price, tx_id, clock, TRUE)
    /\ loggedInCycle' = loggedInCycle + 1
    /\ pc' = "sleep"
    /\ UNCHANGED <<dry_run, cycle, position, price, signed, tx_id, chain,
                   round, pool, groups, waited>>
    /\ UNCHANGED <<engineVars, contractVars>>
    /\ UNCHANGED <<instanceVars, functionVars>>

\* the loop going on only after a cycle that logged: a failure caught by
\* the except clause would end it
SleepUnlessFailed ==
    /\ pc = "sleep"
    /\ loggedInCycle > 0
    /\ clock' = clock + PollTicks
    /\ pc' = "start"
    /\ UNCHANGED <<last_rebalance_time, price_history, decision, evalNow,
                   evalIn, evals, rebalancedAt>>
    /\ UNCHANGED <<dry_run, cycle, position, price, signed, tx_id, entries,
                   chain, round, pool, groups, loggedInCycle, waited>>
    /\ UNCHANGED contractVars
    /\ UNCHANGED <<loggerVars, instanceVars, functionVars>>

\* await asyncio.sleep(POLL_INTERVAL_SECONDS)
Sleep ==
    /\ pc = "sleep"
    /\ clock' = clock + PollTicks
    /\ pc' = "start"
    /\ UNCHANGED <<last_rebalance_time, price_history, decision, evalNow,
                   evalIn, evals, rebalancedAt>>
    /\ UNCHANGED <<dry_run, cycle, position, price, signed, tx_id, entries,
                   chain, round, pool, groups, loggedInCycle, waited>>
    /\ UNCHANGED contractVars
    /\ UNCHANGED <<loggerVars, instanceVars, functionVars>>

\* the ledger closes a round; groups past their last valid round leave the
\* pool
NextRound ==
    /\ round < MaxRounds
    /\ round' = round + 1
    /\ waited' = IF pc = "wait" THEN Min(waited + 1, WaitRounds) ELSE waited
    /\ pool' = {g \in pool : round + 1 <= groups[g].signed[1].txn.lv}
    /\ UNCHANGED <<pc, dry_run, cycle, position, price, signed, tx_id, entries,
                   chain, groups, loggedInCycle>>
    /\ UNCHANGED <<engineVars, contractVars>>
    /\ UNCHANGED <<loggerVars, instanceVars, functionVars>>

\* the ledger evaluates a group of the pool: it takes effect or is dropped
Confirm ==
    /\ \E g \in pool, swap_ok \in BOOLEAN :
        /\ round <= groups[g].signed[1].txn.lv
        /\ groups' = [groups EXCEPT ![g].applied =
                         Applied(groups[g].signed, chain, swap_ok, BlockTime)]
        /\ chain' = Ledger(groups[g].signed, chain, swap_ok, BlockTime)
        /\ pool' = pool \ {g}
    /\ UNCHANGED <<pc, dry_run, cycle, position, price, signed, tx_id, entries,
                   round, loggedInCycle, waited>>
    /\ UNCHANGED <<engineVars, contractVars>>
    /\ UNCHANGED <<loggerVars, instanceVars, functionVars>>

\* DecisionLogger() finds no log file; without AGENT_MNEMONIC the loop runs
\* dry
LoopInit ==
    /\ pc = "start"
    /\ dry_run \in BOOLEAN
    /\ cycle = 0
    /\ position = NoPosition
    /\ price = 0
    /\ signed = <<>>
    /\ tx_id = "None"
    /\ entries = <<>>
    /\ chain \in {Deployed, DeployedWithAgent}
    /\ round = 0
    /\ pool = {}
    /\ groups = <<>>
    /\ loggedInCycle = 0
    /\ waited = 0

LoopSpecInit ==
    EngineInit /\ ContractIdle /\ LoopInit /\ LoggerIdle /\ InstancesIdle
        /\ FunctionsIdle

LoopNext ==
    \/ ReadAndEvaluate
    \/ FetchRaises
    \/ Build
    \/ BuildRaises
    \/ SendAccepted
    \/ SendFails
    \/ WaitConfirmed
    \/ WaitFails
    \/ Log
    \/ Sleep
    \/ NextRound
    \/ Confirm

SpecLoop == LoopSpecInit /\ [][LoopNext]_vars

\* The event loop resumes the coroutine when asyncio.sleep is over, and the
\* calls the cycle awaits (the price feed, the node, the confirmation wait
\* with its bound of WaitRounds rounds) return or raise; the ledger goes on
\* closing rounds and deciding the groups of its pool.
LoopFairness ==
    /\ WF_vars(Sleep)
    /\ WF_vars(ReadAndEvaluate \/ FetchRaises)
    /\ WF_vars(Build \/ BuildRaises)
    /\ WF_vars(SendAccepted \/ SendFails)
    /\ WF_vars(WaitConfirmed \/ WaitFails)
    /\ WF_vars(Log)
    /\ WF_vars(NextRound)
    /\ WF_vars(Confirm)

SpecLoopLive == SpecLoop /\ LoopFairness

(***************************************************************************)
(* SpecStop: monitoring_loop with the two ways the process is stopped.     *)
(* KeyboardInterrupt is no Exception: the except clause of the loop lets   *)
(* it pass, asyncio.run unwinds, and main() writes "Agent stopped by       *)
(* user." to the process log.  The backend's stop_agent and shutdown_agent *)
(* call agent_process.terminate(); the agent installs no handler, so the   *)
(* process ends where it stands.                                           *)
(***************************************************************************)
Running == {"start", "build", "submit", "wait", "log", "sleep"}

\* main(): except KeyboardInterrupt
KeyboardInterrupt ==
    /\ pc \in Running
    /\ pc' = "interrupted"
    /\ UNCHANGED <<dry_run, cycle, position, price, signed, tx_id, entries,
                   chain, round, pool, groups, loggedInCycle, waited>>
    /\ UNCHANGED <<engineVars, contractVars>>
    /\ UNCHANGED <<loggerVars, instanceVars, functionVars>>

\* backend: agent_process.terminate()
Terminate ==
    /\ pc \in Running
    /\ pc' = "terminated"
    /\ UNCHANGED <<dry_run, cycle, position, price, signed, tx_id, entries,
                   chain, round, pool, groups, loggedInCycle, waited>>
    /\ UNCHANGED <<engineVars, contractVars>>
    /\ UNCHANGED <<loggerVars, instanceVars, functionVars>>

StopNext ==
    \/ ReadAndEvaluate
    \/ FetchRaises
    \/ Build
    \/ BuildRaises
    \/ SendAccepted
    \/ SendFails
    \/ WaitConfirmed
    \/ WaitFails
    \/ Log
    \/ Sleep
    \/ NextRound
    \/ Confirm
    \/ KeyboardInterrupt
    \/ Terminate

SpecStop == LoopSpecInit /\ [][StopNext]_vars

(***************************************************************************)
(* SpecInstances: several agent processes, each running monitoring_loop    *)
(* with a DecisionEngine of its own, signing with the same agent key       *)
(* against the one vault application.  A process's cycle is two steps: it  *)
(* reads the position and the price and evaluates; on REBALANCE it builds  *)
(* the group and submit_group hands it to the ledger, which takes it or    *)
(* not.  The processes share nothing but the chain and the wall clock.     *)
(***************************************************************************)
Instances == {1, 2}
MaxInstanceCycles == 2
MaxInstanceTicks == 2

InstancePrices == {180, 250, 100}

\* DecisionEngine() and the locals of monitoring_loop before the first cycle
NewInstance ==
    [pc |-> "start", last_rebalance_time |-> 0, price_history |-> <<>>,
     decision |-> NoDecision, price |-> 0, cycles |-> 0, wake |-> 0]

\* steps 1 to 3 of a cycle of process i
InstanceEvaluate(i) ==
    /\ instances[i].pc = "start"
    /\ instances[i].cycles < MaxInstanceCycles
    /\ \E p \in InstancePrices :
        LET me == instances[i]
            pos == ReadPosition(chain, TRUE)
            history == VolUpdate(me.price_history, VOLATILITY_WINDOW, p)
            d == EvaluateDecision(history, me.last_rebalance_time, clock, p,
                                  pos, FALSE)
        IN  instances' = [instances EXCEPT ![i] =
                [pc |-> IF d.action = "REBALANCE" THEN "submit" ELSE "sleep",
                 last_rebalance_time |->
                     NextRebalanceTime(d, me.last_rebalance_time, clock),
                 price_history |-> history,
                 decision |-> d,
                 price |-> p,
                 cycles |-> me.cycles + 1,
                 wake |-> clock + PollTicks]]
    /\ UNCHANGED <<clock, chain, committed>>
    /\ UNCHANGED <<engineRest, contractVars, loopRest, loggerVars, functionVars>>

\* step 4 of a cycle of process i: the group is built, submitted and
\* decided by the ledger in a block of the current time
InstanceSubmit(i) ==
    /\ instances[i].pc = "submit"
    /\ \E swap_ok \in BOOLEAN :
        LET me == instances[i]
            batch == build_rebalance_group(NewLower(me.decision, me.price),
                                           NewUpper(me.decision, me.price),
                                           FALSE, round)
            ts == clock \div TicksPerSecond
        IN  /\ chain' = Ledger(batch, chain, swap_ok, ts)
            /\ committed' =
                   IF Applied(batch, chain, swap_ok, ts) = DOMAIN batch
                   THEN Append(committed, [by |-> i, at |-> clock])
                   ELSE committed
    /\ instances' = [instances EXCEPT ![i].pc = "sleep",
                                      ![i].wake = clock + PollTicks]
    /\ UNCHANGED clock
    /\ UNCHANGED <<engineRest, contractVars, loopRest, loggerVars, functionVars>>

\* asyncio.sleep(POLL_INTERVAL_SECONDS) of process i is over
InstanceWake(i) ==
    /\ instances[i].pc = "sleep"
    /\ clock >= instances[i].wake
    /\ instances' = [instances EXCEPT ![i].pc = "start"]
    /\ UNCHANGED <<clock, chain, committed>>
    /\ UNCHANGED <<engineRest, contractVars, loopRest, loggerVars, functionVars>>

\* half a poll interval passes
Tick ==
    /\ clock < StartClock + MaxInstanceTicks * (PollTicks \div 2)
    /\ clock' = clock + PollTicks \div 2
    /\ UNCHANGED <<chain, instances, committed>>
    /\ UNCHANGED <<engineRest, contractVars, loopRest, loggerVars, functionVars>>

InstancesInit ==
    /\ EngineIdle
    /\ ContractIdle
    /\ pc = "idle"
    /\ dry_run = FALSE
    /\ cycle = 0
    /\ position = NoPosition
    /\ price = 0
    /\ signed = <<>>
    /\ tx_id = "None"
    /\ entries = <<>>
    /\ chain \in {Deployed, DeployedWithAgent}
    /\ round = 0
    /\ pool = {}
    /\ groups = <<>>
    /\ loggedInCycle = 0
    /\ waited = 0
    /\ instances = [i \in Instances |-> NewInstance]
    /\ committed = <<>>
    /\ LoggerIdle
    /\ FunctionsIdle

InstancesNext ==
    \/ \E i \in Instances : InstanceEvaluate(i)
    \/ \E i \in Instances : InstanceSubmit(i)
    \/ \E i \in Instances : InstanceWake(i)
    \/ Tick

SpecInstances == InstancesInit /\ [][InstancesNext]_vars

(***************************************************************************)
(* SpecWindow: one VolatilityModel(window = VOLATILITY_WINDOW), updated    *)
(* until its window has filled and begun to evict.  The feed rises by one  *)
(* thousandth of a dollar per sample, so that samples are told apart, and  *)
(* every SpikeEvery-th sample may be a spike instead.                      *)
(***************************************************************************)
\* three updates more than the window holds
MaxUpdates == 2163
SpikeEvery == 1000

Ramp(n) == 100 + (n % 150)

WindowFeed(n) == {Ramp(n)} \cup (IF n % SpikeEvery = 0 THEN {250} ELSE {})

\* vol_model.update(price)
VolatilityUpdate ==
    /\ Len(arrivals) < MaxUpdates
    /\ \E p \in WindowFeed(Len(arrivals)) :
        /\ price_history' = VolUpdate(price_history, VOLATILITY_WINDOW, p)
        /\ arrivals' = Append(arrivals, p)
    /\ UNCHANGED <<clock, last_rebalance_time, decision, evalNow, evalIn,
                   evals, rebalancedAt, quote>>
    /\ UNCHANGED <<contractVars, loopVars, loggerVars, instanceVars>>

WindowInit ==
    EngineIdle /\ ContractIdle /\ LoopIdle /\ LoggerIdle /\ InstancesIdle
        /\ FunctionsIdle

WindowNext == VolatilityUpdate

SpecWindow == WindowInit /\ [][WindowNext]_vars

(***************************************************************************)
(* SpecCost: estimate_swap_cost applied to a capital and to twice that     *)
(* capital at one slippage percent; `quote` keeps the locals of both       *)
(* calls.  Capitals are whole cents as the chain stores them, slippage     *)
(* percents are 0, the default 0.5 and MAX_SLIPPAGE_PCT = 2.0.             *)
(***************************************************************************)
MaxCostCapital == 40

CostCapitals == 0..MaxCostCapital \cup {90, 91, 500000}
CostSlippages == {0, DefaultSlippageBp, 200}

\* the locals of one call
Components(capital, slippage_bp) ==
    [capital |-> capital, slippage |-> slippage_bp,
     swap_fee |-> SwapFee(capital),
     slippage_cost |-> SlippageCost(capital, slippage_bp),
     gas_cost |-> GasCost,
     total |-> estimate_swap_cost(capital, slippage_bp)]

EstimateSwapCost ==
    /\ \E c \in CostCapitals, s \in CostSlippages :
        quote' = [estimated |-> TRUE,
                  once |-> Components(c, s),
                  twice |-> Components(2 * c, s)]
    /\ UNCHANGED arrivals
    /\ UNCHANGED <<engineVars, contractVars, loopVars, loggerVars,
                   instanceVars>>

CostInit ==
    EngineIdle /\ ContractIdle /\ LoopIdle /\ LoggerIdle /\ InstancesIdle
        /\ FunctionsIdle

CostNext == EstimateSwapCost

SpecCost == CostInit /\ [][CostNext]_vars

(***************************************************************************)
(* SpecLogger: one log file and one remote table over the life of several  *)
(* agent processes.  A process logs decisions; the remote insert succeeds  *)
(* or raises; write_text may raise (disk full, no permission), before the  *)
(* file is opened or after it is truncated; a new process constructs a     *)
(* DecisionLogger, which loads the file and connects to Supabase or not.   *)
(***************************************************************************)
MaxLogEntries == 3
MaxLogPolls == 2

LoggerDecisions ==
    {[action |-> "HOLD", reason |-> [kind |-> "In range", value |-> 1200]],
     [action |-> "SKIP", reason |-> [kind |-> "Cost too high", value |-> 0]]}

\* the clock a log call may read: the same second, or a poll interval later
LoggerTimes ==
    {t \in {clock, clock + PollTicks} : t <= StartClock + MaxLogPolls * PollTicks}

\* logger.log(decision, price, tx_id) returns
LoggerLogs ==
    /\ Len(entries) < MaxLogEntries
    /\ Len(mirror) < MaxLogEntries
    /\ \E d \in LoggerDecisions, now \in LoggerTimes, remote_ok \in BOOLEAN :
        /\ clock' = now
        /\ LoggerLog(d, 180, "None", now, remote_ok)
    /\ UNCHANGED <<engineRest, contractVars, instanceVars, functionVars>>
    /\ UNCHANGED <<pc, dry_run, cycle, position, price, signed, tx_id, chain,
                   round, pool, groups, loggedInCycle, waited>>

\* logger.log raises in _save: the entry is in memory, the file is as it
\* was or left truncated, _write_supabase is not reached
LoggerSaveRaises ==
    /\ Len(entries) < MaxLogEntries
    /\ \E d \in LoggerDecisions, truncated \in BOOLEAN :
        LET entry == Entry(d, 180, "None", Timestamp(clock))
        IN  /\ entries' = Append(entries, entry)
            /\ log_file' = IF truncated THEN Unreadable ELSE log_file
            /\ log_outcome' = [call |-> "log", entry |-> entry,
                               secondary |-> "not attempted", raised |-> TRUE]
    /\ UNCHANGED <<clock, persisted, supabase, mirror>>
    /\ UNCHANGED <<engineRest, contractVars, instanceVars, functionVars>>
    /\ UNCHANGED <<pc, dry_run, cycle, position, price, signed, tx_id, chain,
                   round, pool, groups, loggedInCycle, waited>>

\* a new agent process: DecisionLogger() runs _load and _init_supabase
LoggerRestart ==
    /\ log_outcome # NoLogCall
    /\ entries' = Load(log_file)
    /\ supabase' \in BOOLEAN
    /\ log_outcome' = NoLogCall
    /\ UNCHANGED <<clock, log_file, persisted, mirror>>
    /\ UNCHANGED <<engineRest, contractVars, instanceVars, functionVars>>
    /\ UNCHANGED <<pc, dry_run, cycle, position, price, signed, tx_id, chain,
                   round, pool, groups, loggedInCycle, waited>>

LoggerInit ==
    /\ EngineIdle
    /\ ContractIdle
    /\ LoopIdle
    /\ log_file = NoFile
    /\ persisted = <<>>
    /\ supabase \in BOOLEAN
    /\ mirror = <<>>
    /\ log_outcome = NoLogCall
    /\ InstancesIdle
    /\ FunctionsIdle

LoggerNext ==
    \/ LoggerLogs
    \/ LoggerSaveRaises
    \/ LoggerRestart

SpecLogger == LoggerInit /\ [][LoggerNext]_vars

(***************************************************************************)
(* Claims about the cooldown                                               *)
(***************************************************************************)
Last(s) == s[Len(s)]

IsCooldownSkip(d) == d.action = "SKIP" /\ d.reason.kind = "Cooldown"

\* an evaluate call is made in this step, less than the cooldown after the
\* latest call that returned REBALANCE
EvaluatedInCooldown ==
    /\ evals' = evals + 1
    /\ rebalancedAt # <<>>
    /\ evalNow' - Last(rebalancedAt) < CooldownTicks

\* C1 as stated: after evaluate returned REBALANCE at t, every evaluate
\* call at t' with t' - t < cooldownSeconds returns the cooldown SKIP, the
\* remaining time it reports is at most cooldownSeconds, and it is strictly
\* smaller than the one reported by the previous call whenever the clock
\* has advanced in between.
C1_StrictlyDecreasing ==
    [][EvaluatedInCooldown =>
          /\ IsCooldownSkip(decision')
          /\ decision'.reason.value <= REBALANCE_COOLDOWN_SECONDS
          /\ (IsCooldownSkip(decision) /\ evalNow' > evalNow
                => decision'.reason.value < decision.reason.value)]_vars

\* C1 amended: after evaluate returned REBALANCE at t, every evaluate call
\* at t' with t' - t < cooldownSeconds returns the cooldown SKIP, whatever
\* the price and position; the remaining time it reports is a whole number
\* of seconds, at most cooldownSeconds, that never increases as the clock
\* advances and strictly decreases whenever the clock has advanced by at
\* least one second.
C1_CooldownSkip ==
    [][EvaluatedInCooldown =>
          /\ IsCooldownSkip(decision')
          /\ decision'.reason.value <= REBALANCE_COOLDOWN_SECONDS
          /\ decision'.reason.value >= 0
          /\ (IsCooldownSkip(decision) /\ evalNow' >= evalNow
                => decision'.reason.value <= decision.reason.value)
          /\ (IsCooldownSkip(decision) /\ evalNow' >= evalNow + TicksPerSecond
                => decision'.reason.value < decision.reason.value)]_vars

\* a cooldown SKIP that follows another one, a second or more later
C1_Witness ==
    /\ IsCooldownSkip(decision)
    /\ evals >= 3
    /\ Len(rebalancedAt) = 1
    /\ evalNow >= Last(rebalancedAt) + 1 + TicksPerSecond

\* C2: any two evaluate calls of one engine that return REBALANCE are at
\* least cooldownSeconds apart.
C2_RebalancesApart ==
    \A i, j \in 1..Len(rebalancedAt) :
        i < j => rebalancedAt[j] - rebalancedAt[i] >= CooldownTicks

\* two REBALANCE decisions of the same engine
C2_Witness == Len(rebalancedAt) >= 2

(***************************************************************************)
(* Claims about the shape of a decision                                    *)
(***************************************************************************)
Actions == {"HOLD", "REBALANCE", "ALERT", "SKIP"}

HasBounds(d) == "new_lower" \in DOMAIN d /\ "new_upper" \in DOMAIN d
HasABound(d) == "new_lower" \in DOMAIN d \/ "new_upper" \in DOMAIN d

\* C10: every decision evaluate returns has one action of HOLD, REBALANCE,
\* ALERT, SKIP and carries new_lower and new_upper if and only if the
\* action is REBALANCE.
C10_BoundsIffRebalance ==
    evals > 0 =>
        /\ decision.action \in Actions
        /\ HasBounds(decision) <=> decision.action = "REBALANCE"
        /\ HasABound(decision) => HasBounds(decision)

(***************************************************************************)
(* Claims about the contract's access control                              *)
(***************************************************************************)
\* this step is one application call
Called == calls' = calls + 1

\* the call of this step comes from a sender other than the creator
NonCreatorCall == Called /\ call'.sender # Creator

NoDecrease(before, after) ==
    /\ after.deposited_algo >= before.deposited_algo
    /\ after.deposited_usdc >= before.deposited_usdc

\* C5: no call from a sender other than the creator decreases
\* deposited_algo or deposited_usdc, and every withdraw call from such a
\* sender is rejected and leaves the state unchanged, in the Puya contract
\* and in the TEAL program.
C5_OnlyCreatorDecreases ==
    [][NonCreatorCall =>
          /\ NoDecrease(puya, puya')
          /\ NoDecrease(teal, teal')
          /\ (call'.method = "withdraw" =>
                /\ ~call'.puya_ok /\ puya' = puya
                /\ ~call'.teal_ok /\ teal' = teal)]_vars

\* the vault, the rebalance record and the counters
Guarded(st) == Fields(st)

\* this step is a trigger_rebalance call, an ordinary (NoOp) one
TriggerCalled == Called /\ call'.method = "trigger_rebalance" /\ call'.oc = "NoOp"

\* the sender is the creator or the address authorize_agent stored last,
\* not revoked since
CreatorOrAuthorized(st, sender) ==
    \/ sender = Creator
    \/ st.agent_authorized = 1 /\ sender = st.agent_address

Rebalanced(before, after) ==
    /\ after.total_rebalances = before.total_rebalances + 1
    /\ after.total_decisions = before.total_decisions + 1
    /\ after.last_decision_action = 1

\* C6: a trigger_rebalance call to the application is accepted if and only
\* if its sender is the creator or the currently authorized agent address;
\* a rejected one (any other sender, the agent before authorize_agent or
\* after revoke_agent) leaves the bounds and all counters unchanged.  Both
\* implementations.
C6_RebalanceAccess ==
    [][TriggerCalled =>
          /\ call'.puya_ok <=> CreatorOrAuthorized(puya, call'.sender)
          /\ call'.puya_ok => Rebalanced(puya, puya')
          /\ ~call'.puya_ok => Guarded(puya') = Guarded(puya)
          /\ (teal.status = "live" =>
                /\ call'.teal_ok <=> CreatorOrAuthorized(teal, call'.sender)
                /\ call'.teal_ok => Rebalanced(teal, teal')
                /\ ~call'.teal_ok => Guarded(teal') = Guarded(teal))]_vars

\* the authorized agent has rebalanced, in both implementations
C6_Witness ==
    /\ call.method = "trigger_rebalance"
    /\ call.sender = Agent
    /\ call.oc = "NoOp"
    /\ call.puya_ok /\ call.teal_ok
    /\ puya.agent_authorized = 1 /\ puya.agent_address = Agent
    /\ teal.agent_authorized = 1 /\ teal.agent_address = Agent
    /\ puya.total_rebalances = 1 /\ teal.total_rebalances = 1

\* the entry points other than trigger_rebalance and log_decision that
\* change state
OwnerEntryPoints ==
    {"set_position", "authorize_agent", "revoke_agent", "deposit", "withdraw",
     "initialize"}

\* the call of this step is sent by the key the contract holds as agent
AgentCalled ==
    /\ Called
    /\ call'.sender = Agent
    /\ puya.agent_authorized = 1 /\ puya.agent_address = Agent
    /\ teal.agent_authorized = 1 /\ teal.agent_address = Agent

\* C7: an accepted withdraw or set_position call comes from the creator,
\* and every call of the delegated agent key to an entry point other than
\* trigger_rebalance and log_decision is rejected.
C7_AgentEntryPoints ==
    [][/\ (Called /\ call'.method \in {"withdraw", "set_position"}
             /\ (call'.puya_ok \/ call'.teal_ok)
           => call'.sender = Creator)
       /\ (AgentCalled /\ call'.method \in OwnerEntryPoints
           => ~call'.puya_ok /\ ~call'.teal_ok)]_vars

(***************************************************************************)
(* Claims about the rebalance group and the monitoring loop                *)
(***************************************************************************)
AllOf(g) == DOMAIN groups[g].signed

FullyApplied == {g \in DOMAIN groups : groups[g].applied = AllOf(g)}

\* C3: of every group handed to submit_group either all five operations
\* have taken effect or none has, and the application's range record and
\* total_rebalances have changed exactly once per group that took effect
\* as a whole.
C3_AllOrNothing ==
    /\ \A g \in DOMAIN groups :
          /\ Len(groups[g].signed) = 5
          /\ groups[g].applied = {} \/ groups[g].applied = AllOf(g)
    /\ chain.total_rebalances = Cardinality(FullyApplied)
    /\ FullyApplied = {} => chain \in {Deployed, DeployedWithAgent}

\* a group has taken effect, and moved the range
C3_Witness ==
    /\ FullyApplied # {}
    /\ chain.total_rebalances = 1
    /\ chain.lower_bound # Deployed.lower_bound

\* C4: a group whose submission submit_group reported as failed has no
\* effect on chain, then or later.
C4_FailedHasNoEffect ==
    \A g \in DOMAIN groups :
        groups[g].reported = "failed" => groups[g].applied = {}

\* C8: every cycle of monitoring_loop ends with exactly one entry appended
\* to the decision log.
C8_OneEntryPerCycle ==
    pc = "sleep" => loggedInCycle = 1 /\ Len(entries) = cycle

FixedOrder == <<"withdraw", "transfer", "swap", "deposit", "commit">>

C11_RebalanceCarriesBounds ==
    evals > 0 /\ decision.action = "REBALANCE" =>
        /\ HasBounds(decision)
        /\ decision.new_lower = 82 * evalIn.price
        /\ decision.new_upper = 122 * evalIn.price
        /\ 0 < decision.new_lower
        /\ decision.new_lower < decision.new_upper

\* the latest call found the engine inside its cooldown
InCooldown ==
    /\ evalIn.last > 0
    /\ evalNow - evalIn.last < CooldownTicks

\* the latest call's price lies strictly inside the range, and the
\* volatility model predicts at least MIN_HOURS_IN_RANGE hours in it
ComfortablyInRange ==
    /\ evals > 0
    /\ evalIn.position.lower_bound < evalIn.price
    /\ evalIn.price < evalIn.position.upper_bound
    /\ evalIn.hours >= MIN_HOURS_IN_RANGE * 100

\* C12 as stated: with lower < price < upper and hoursInRange at least
\* minHoursInRange, evaluate returns HOLD in every engine state, whatever
\* lastRebalanceAt.
C12_HoldInEveryState == ComfortablyInRange => decision.action = "HOLD"

\* C12 amended: with lower < price < upper and hoursInRange at least
\* minHoursInRange, evaluate returns HOLD unless the cooldown guard fires,
\* and then it returns the cooldown SKIP.
C12_HoldOutsideCooldown ==
    ComfortablyInRange =>
        IF InCooldown THEN IsCooldownSkip(decision)
        ELSE decision.action = "HOLD" /\ decision.reason.kind = "In range"

\* HOLD on the prediction of a full volatility sample, not the default
C12_Witness ==
    /\ ComfortablyInRange
    /\ Len(price_history) >= MinSamples
    /\ evalIn.hours # DefaultHours
    /\ decision.action = "HOLD"

\* the price is less than BUFFER_ZONE_PCT percent of a boundary away from it
NearBound(p, b) == b > 0 /\ 100 * Abs(p - b) < BUFFER_ZONE_PCT * b

\* the latest call's price is that close to the nearer boundary
NearABound ==
    /\ evals > 0
    /\ \/ NearBound(evalIn.price, evalIn.position.lower_bound)
       \/ NearBound(evalIn.price, evalIn.position.upper_bound)

PriceInRange ==
    /\ evalIn.position.lower_bound <= evalIn.price
    /\ evalIn.price <= evalIn.position.upper_bound

IsBufferHold(d) == d.action = "HOLD" /\ d.reason.kind = "Buffer zone"

\* C13: whenever the price is within bufferZonePct of the nearer boundary,
\* inside the range or outside it, evaluate returns HOLD with the
\* buffer-zone reason.
C13_BufferZoneEitherSide == NearABound => IsBufferHold(decision)

\* C14: when the cooldown guard does not fire and the price is outside the
\* range but within bufferZonePct of the nearer boundary, evaluate returns
\* the buffer-zone HOLD, leaves lastRebalanceAt unchanged and does not
\* reach the out-of-range cost/benefit branch (no fee projection, no new
\* bounds).
C14_BufferGuardFirst ==
    NearABound /\ ~PriceInRange /\ ~InCooldown =>
        /\ IsBufferHold(decision)
        /\ last_rebalance_time = evalIn.last
        /\ decision.fee_projection = 0
        /\ ~HasABound(decision)

\* the buffer-zone HOLD of an engine that has rebalanced before and whose
\* cooldown is over
C14_Witness ==
    /\ NearABound /\ ~PriceInRange /\ ~InCooldown
    /\ evalIn.last > 0
    /\ IsBufferHold(decision)

\* For a capital of c cents, in thousandths of a cent:
\*   projectedWeekly = 7 * capital * 0.003
\*   swapCost        = capital * 0.5 * (0.003 + 0.005) + 0.004 USD
ProjectedWeeklyOf(c) == 7 * 3 * c
SwapCostOf(c) == ((3 + 5) * c) \div 2 + 400

\* projectedWeekly > swapCost * 2.5
WorthRebalancing(c) == 2 * ProjectedWeeklyOf(c) > 5 * SwapCostOf(c)

\* neither guard fires and the price is outside the range
OutOfRangeBranch ==
    /\ evals > 0
    /\ ~InCooldown
    /\ ~PriceInRange
    /\ ~NearABound

InRangeLowHours ==
    /\ evals > 0
    /\ ~InCooldown
    /\ PriceInRange
    /\ evalIn.hours < MIN_HOURS_IN_RANGE * 100

\* weeklyFee - swapCost > swapCost * 2.5, the price being in range
WorthPreempting(c) ==
    2 * (ProjectedWeeklyOf(c) - SwapCostOf(c)) > 5 * SwapCostOf(c)

Evaluated == evals' = evals + 1

\* C17: lastRebalanceAt never decreases; an evaluate call changes it only
\* if it returns REBALANCE, and then to the time of the call; a call that
\* returns HOLD, ALERT or SKIP leaves it unchanged.
C17_RebalanceTimeMonotone ==
    [][/\ last_rebalance_time' >= last_rebalance_time
       /\ (last_rebalance_time' # last_rebalance_time =>
             Evaluated /\ decision'.action = "REBALANCE")
       /\ (Evaluated /\ decision'.action = "REBALANCE" =>
             /\ last_rebalance_time' >= evalNow'
             /\ last_rebalance_time' = clock')
       /\ (Evaluated /\ decision'.action # "REBALANCE" =>
             last_rebalance_time' = last_rebalance_time)]_vars

\* a call after the cooldown of an earlier REBALANCE that returns another
\* action and keeps the earlier time
C17_Witness ==
    /\ evals >= 2
    /\ evalIn.last > 0
    /\ ~InCooldown
    /\ decision.action \in {"HOLD", "SKIP"}
    /\ last_rebalance_time = evalIn.last

\* C18: the only effect of evaluate on the engine is the change of
\* lastRebalanceAt when it returns REBALANCE; a call that returns HOLD,
\* ALERT or SKIP leaves the cooldown timestamp and the volatility window
\* unchanged.
C18_NoOtherEffect ==
    [][Evaluated =>
          /\ price_history' = price_history
          /\ (decision'.action # "REBALANCE" =>
                last_rebalance_time' = last_rebalance_time)]_vars

(***************************************************************************)
(* Claims about the modes of monitoring_loop                               *)
(***************************************************************************)
\* submit_group returned None for the group of cycle c
FailedSubmission(c) == c \in DOMAIN groups /\ groups[c].reported = "failed"

IsRevertedEntry(e) ==
    /\ e.action = "SKIP"
    /\ "reverted" \in DOMAIN e.reason
    /\ e.tx_id = "None"

\* this step appends the entry of the current cycle
Logged == pc = "log" /\ pc' = "sleep"

\* C19: the entry logged for a live cycle whose REBALANCE could not be
\* submitted has action SKIP, the "(reverted)" note and no execution id;
\* lastRebalanceAt keeps the value evaluate gave it, and evaluations
\* within cooldownSeconds of it return the cooldown SKIP.
C19_FailedSubmissionLogged ==
    [][/\ (Logged /\ FailedSubmission(cycle) =>
             /\ Len(entries') = Len(entries) + 1
             /\ IsRevertedEntry(Last(entries'))
             /\ last_rebalance_time' = Last(rebalancedAt)
             /\ last_rebalance_time' > 0)
       /\ (FailedSubmission(cycle)' /\ ~FailedSubmission(cycle) =>
             last_rebalance_time' = last_rebalance_time)
       /\ (Evaluated /\ (\E g \in DOMAIN groups : FailedSubmission(g))
             /\ evalNow' - last_rebalance_time < CooldownTicks =>
             IsCooldownSkip(decision'))]_vars

\* the cycle after a failed submission: its entry is the cooldown SKIP
C19_Witness ==
    /\ Len(entries) = 2
    /\ IsRevertedEntry(entries[1])
    /\ FailedSubmission(1)
    /\ entries[2].action = "SKIP"
    /\ entries[2].reason.kind = "Cooldown"
    /\ last_rebalance_time = Last(rebalancedAt)

\* nothing has been built, signed or submitted, and no entry names an
\* execution id
NeverSubmitted ==
    /\ pc \notin {"build", "submit", "wait"}
    /\ signed = <<>>
    /\ groups = <<>>
    /\ pool = {}
    /\ \A i \in DOMAIN entries : entries[i].tx_id = "None"

\* C20: in dry-run mode every cycle evaluates and logs its decision, and
\* no transaction group is ever built, signed or submitted (every logged
\* entry has a null execution id).
C20_DryRunLogsEveryCycle ==
    dry_run =>
        /\ NeverSubmitted
        /\ pc = "sleep" => evals = cycle /\ Len(entries) = cycle

(***************************************************************************)
(* Claims about the scheduling of monitoring_loop                          *)
(***************************************************************************)
\* the cycle went through the except clause: it is over without an entry
CaughtFailure(c) == cycle = c /\ pc = "sleep" /\ loggedInCycle = 0

\* C21: a failure inside a cycle does not end the loop: the except clause
\* catches it, the cycle ends in the sleep, and, the sleep and the awaited
\* calls returning, the next cycle starts.
C21_NextCycleAfterFailure ==
    \A c \in 1..(MaxCycles - 1) : CaughtFailure(c) ~> (cycle = c + 1)

\* the second cycle has evaluated after a first one that logged nothing
C21_Witness ==
    /\ cycle = 2
    /\ entries = <<>>
    /\ pc = "log"

\* every group handed to submit_group has been reported confirmed or failed
NoneInFlight == \A g \in DOMAIN groups : groups[g].reported # "pending"

\* the previous cycle logged its decision, or was abandoned before any
\* submission of its own
CycleOver == pc = "start" /\ (loggedInCycle = 1 \/ cycle \notin DOMAIN groups)

\* C22: one cycle at a time.  A cycle begins only when the loop stands at
\* the top of its body, with the previous cycle's submission reported and
\* its entry appended (or the cycle abandoned); lastRebalanceAt and the
\* volatility window change only in the step that begins a cycle.
C22_OneCycleAtATime ==
    [][/\ cycle' # cycle => (cycle' = cycle + 1 /\ CycleOver /\ NoneInFlight)
       /\ <<last_rebalance_time, price_history>>'
              # <<last_rebalance_time, price_history>>
            => (pc = "start" /\ cycle' = cycle + 1)]_vars

\* the second cycle runs after a first one that submitted a group
C22_Witness ==
    /\ cycle = 2
    /\ pc # "start"
    /\ 1 \in DOMAIN groups
    /\ Len(entries) >= 1

\* a decision has been evaluated in this cycle and is not logged yet; at
\* "wait" its group is with the node
DecisionInFlight == pc \in {"build", "submit", "wait", "log"}

Stopped == {"interrupted", "terminated"}

\* C23: a stop signal that arrives while a decision is evaluated or its
\* submission in flight, and not yet logged, leaves the process to append
\* the entry for that decision before it exits.
C23_StopLogsInFlightDecision ==
    [][(DecisionInFlight /\ pc' \in Stopped)
            => (loggedInCycle' = 1 /\ Len(entries') = Len(entries) + 1)]_vars

(***************************************************************************)
(* Claims about several agent processes                                    *)
(***************************************************************************)
\* C24: two agent processes on one position never both commit a rebalance
\* of it within the cooldown of each other: the cooldown binds them through
\* the state on chain, not through each process's own copy.
C24_InstancesShareCooldown ==
    \A a, b \in DOMAIN committed :
        (a < b /\ committed[a].by # committed[b].by)
            => committed[b].at - committed[a].at >= CooldownTicks

(***************************************************************************)
(* Claims about the volatility model                                       *)
(***************************************************************************)
\* windowHours x 90
WindowSamples == 24 * 90

\* C25: after any sequence of updates the model holds at most
\* windowHours x 90 samples, and they are the most recent updates in the
\* order they arrived: what is evicted is always the oldest.
C25_WindowHoldsMostRecent ==
    LET held == Len(price_history)
        seen == Len(arrivals)
    IN  /\ held <= WindowSamples
        /\ held = IF seen <= WindowSamples THEN seen ELSE WindowSamples
        /\ \A k \in 1..held : price_history[k] = arrivals[seen - held + k]

\* the window is full and has evicted its oldest sample
C25_Witness ==
    /\ Len(arrivals) > WindowSamples
    /\ Len(price_history) = WindowSamples
    /\ price_history[1] = arrivals[Len(arrivals) - WindowSamples + 1]
    /\ price_history[1] # arrivals[1]

\* the samples of the last hour are not all equal: their variance is positive
Dispersed(h) == \E i, j \in DOMAIN h : h[i] # h[j]

\* distance of the evaluated price to the nearer bound, in 1/1000 USD
MinDist ==
    Min(evalIn.price - evalIn.position.lower_bound,
        evalIn.position.upper_bound - evalIn.price)

\* What the model predicts from as many samples of zero variance, in
\* hundredths of an hour: std_dev falls back to 0.001, so hours is
\* (min_dist / (0.001 * sqrt(90)))^2 capped at 168; where the floating-point
\* variance of equal samples is a positive residue it is 48.  The larger of
\* the two is taken.
ZeroVarianceHours ==
    LET fallback == Min((MinDist * MinDist * 100) \div 90, 16800)
    IN  IF fallback >= 4800 THEN fallback ELSE 4800

\* C26: predict_hours_in_range is monotone in dispersion: with the price,
\* the bounds and the number of samples (at least 10) fixed, samples of
\* larger variance than zero never give more predicted hours than samples
\* of zero variance do.
C26_DispersionNeverRaisesHours ==
    (/\ Len(price_history) >= 10
     /\ Dispersed(LastN(price_history, 90))
     /\ PriceInRange)
        => evalIn.hours <= ZeroVarianceHours

(***************************************************************************)
(* Claims about the cost estimator                                         *)
(***************************************************************************)
\* 0.5 * capital * 0.003 in money units, capital in cents: 0.003 of half a
\* cent, times the capital
HalfCapitalAtPoolFee(c) == c * (((MoneyPerCent \div 2) * 3) \div 1000)

\* C27: the fee and the slippage cost are linear in capital,
\* swapFee(2c, s) = 2 swapFee(c, s) and slippageCost(2c, s) =
\* 2 slippageCost(c, s), with swapFee = 0.5 * capital * poolFeeRate; the gas
\* cost is the same constant for every capital; no component is negative.
C27_LinearInCapital ==
    quote # NoQuote =>
        /\ quote.twice.capital = 2 * quote.once.capital
        /\ quote.twice.swap_fee = 2 * quote.once.swap_fee
        /\ quote.twice.slippage_cost = 2 * quote.once.slippage_cost
        /\ quote.once.swap_fee = HalfCapitalAtPoolFee(quote.once.capital)
        /\ quote.twice.gas_cost = quote.once.gas_cost
        /\ quote.once.gas_cost = 8000
        /\ quote.once.total = quote.once.swap_fee + quote.once.slippage_cost
                                  + quote.once.gas_cost
        /\ \A q \in {quote.once, quote.twice} :
               q.swap_fee >= 0 /\ q.slippage_cost >= 0 /\ q.gas_cost >= 0

\* the deployed capital of 5000 USD and its double at the default slippage
C27_Witness ==
    /\ quote # NoQuote
    /\ quote.once.capital = 500000
    /\ quote.once.slippage = 50
    /\ quote.once.swap_fee > 0
    /\ quote.twice.slippage_cost > quote.once.slippage_cost

(***************************************************************************)
(* Claims about the decision log                                           *)
(***************************************************************************)
IsPrefix(a, b) == Len(a) <= Len(b) /\ SubSeq(b, 1, Len(a)) = a

NonDecreasing(es) ==
    \A i, j \in DOMAIN es : i <= j => es[i].timestamp <= es[j].timestamp

\* C28: the decision log is append-only.  Whatever log calls and restarts
\* happen, a restart that finds the file unreadable included, the file
\* holds every entry persisted before, unchanged and in insertion order,
\* and timestamps do not decrease along it.
C28_AppendOnly ==
    [][log_file'.state = "readable"
          => (IsPrefix(persisted, log_file'.content)
              /\ NonDecreasing(log_file'.content))]_vars

\* C29: a failing or absent secondary sink does not reach the caller of log
\* and does not touch the primary one: the entry is in the file before the
\* secondary write is attempted, and log returns normally when that write
\* raises.
C29_SecondaryFailureContained ==
    log_outcome # NoLogCall =>
        /\ log_outcome.secondary \in {"failed", "off"} => ~log_outcome.raised
        /\ log_outcome.secondary # "not attempted" =>
               /\ log_file.state = "readable"
               /\ log_file.content # <<>>
               /\ Last(log_file.content) = log_outcome.entry
               /\ log_file.content = entries

\* a second entry has been logged while the remote insert raised
C29_Witness ==
    /\ log_outcome # NoLogCall
    /\ log_outcome.secondary = "failed"
    /\ ~log_outcome.raised
    /\ log_file.state = "readable"
    /\ Len(log_file.content) = 2
    /\ Last(log_file.content) = log_outcome.entry
    /\ mirror = <<>>

(***************************************************************************)
(* Claims about the slippage guard                                         *)
(***************************************************************************)
SwapsOf(batch) == {i \in DOMAIN batch : Operation(batch[i].txn) = "swap"}

\* C30: the swap of every built group names a minimum acceptable output
\* derived from the configured maximum slippage, so that a swap returning
\* less makes the group revert.  A minimum derived from a slippage of 2 %
\* of any positive quote is positive.
C30_SwapNamesMinimumOutput ==
    \A g \in DOMAIN groups :
        /\ SwapsOf(groups[g].signed) # {}
        /\ \A i \in SwapsOf(groups[g].signed) :
               LET args == groups[g].signed[i].txn.args
               IN  Len(args) = 3 /\ args[3] > 0

(***************************************************************************)
(* Claims about the application's counters, its creation and its vault     *)
(***************************************************************************)
Counters == {"total_rebalances", "total_decisions", "total_deposits",
             "total_withdrawals"}

\* the counter an accepted call of the method advances by one
\* (trigger_rebalance also logs its decision)
CountersOf(method) ==
    CASE method = "trigger_rebalance" -> {"total_rebalances", "total_decisions"}
      [] method = "log_decision" -> {"total_decisions"}
      [] method = "deposit" -> {"total_deposits"}
      [] method = "withdraw" -> {"total_withdrawals"}
      [] OTHER -> {}

CountersAppendOnly(before, after, method, ok) ==
    /\ \A k \in Counters : after[k] >= before[k]
    /\ ok => \A k \in CountersOf(method) : after[k] = before[k] + 1

\* C31: over every call after creation, accepted or rejected, none of
\* total_rebalances, total_decisions, total_deposits and total_withdrawals
\* decreases, and an accepted trigger_rebalance, log_decision, deposit or
\* withdraw advances its counter by exactly one, in the Puya contract and
\* in the TEAL program.
C31_CountersAppendOnly ==
    [][Called =>
          /\ CountersAppendOnly(puya, puya', call'.method, call'.puya_ok)
          /\ CountersAppendOnly(teal, teal', call'.method, call'.teal_ok)]_vars

(***************************************************************************)
(* Claims about the engine's cold start                                    *)
(***************************************************************************)
\* the call just made is one of the engine's first nine, the engine had
\* never rebalanced when it was made, and its price was inside the range
ColdStartInRange ==
    /\ evals >= 1 /\ evals <= 9
    /\ evalIn.last = 0
    /\ evalIn.position.lower_bound <= evalIn.price
    /\ evalIn.price <= evalIn.position.upper_bound

\* C32: on an engine that has not rebalanced, each of the first 9 evaluate
\* calls whose price is inside [lower, upper] returns HOLD with
\* hours_in_range = 12.0, the default of fewer than 10 samples.
C32_ColdStartHolds ==
    ColdStartInRange =>
        /\ decision.action = "HOLD"
        /\ decision.hours_in_range = 1200

\* the ninth call, 0.005 from the lower bound and after both prices have
\* been sampled, holds for the default 12.0 h
C32_Witness ==
    /\ evals = 9
    /\ ColdStartInRange
    /\ evalIn.position.lower_bound = 175
    /\ \E i, j \in 1..Len(price_history) : price_history[i] # price_history[j]
    /\ decision.action = "HOLD"
    /\ decision.hours_in_range = 1200

(***************************************************************************)
(* Claims about the position the engine is given                           *)
(***************************************************************************)
\* the call last made was a set_position or trigger_rebalance the
\* implementation accepted
RangeWritten(ok) ==
    /\ call.method \in {"set_position", "trigger_rebalance"}
    /\ call.oc = "NoOp"
    /\ ok

WellFormed(pos) ==
    /\ pos.lower_bound < pos.upper_bound
    /\ pos.capital_usdc >= 0

\* C33: the PositionState read_position_state builds from any state of the
\* application that an accepted set_position or trigger_rebalance call has
\* left has lower_bound < upper_bound and capital_usdc >= 0.
C33_SnapshotWellFormed ==
    /\ RangeWritten(call.puya_ok) => WellFormed(ReadPosition(puya, TRUE))
    /\ RangeWritten(call.teal_ok) => WellFormed(ReadPosition(teal, TRUE))

\* this step is an initialize call to the application, which exists already
InitializeCalled == Called /\ call'.method = "initialize"

\* C34: after the creating call no initialize call, whoever sends it, is
\* accepted, and none changes a field, a balance, a counter or the agent
\* authorization, in the Puya contract and in the TEAL program.
C34_InitializeOnlyAtCreation ==
    [][InitializeCalled =>
          /\ ~call'.puya_ok /\ puya' = puya
          /\ ~call'.teal_ok /\ teal' = teal]_vars

\* this step is a call asking to delete the application or to replace its
\* programs
LifecycleCalled ==
    Called /\ call'.oc \in {"DeleteApplication", "UpdateApplication"}

\* C35: the TEAL program approves no DeleteApplication or UpdateApplication
\* call of a sender other than the creator, and a call whose selector is
\* none of the program's leaves the global state and the application as
\* they were.
C35_LifecycleCreatorOnly ==
    [][/\ (LifecycleCalled /\ call'.sender # Creator => ~call'.teal_ok)
       /\ (Called /\ call'.method = "unknown" => teal' = teal)]_vars

\* the vault record of the application
VaultOf(st) ==
    <<st.deposited_algo, st.deposited_usdc, st.total_withdrawals>>

\* the call asks for more than st records, in ALGO or in USDC
Overdrawn(st, c) == c.a1 > st.deposited_algo \/ c.a2 > st.deposited_usdc

\* the recorded balances are what was paid in less what was paid out, and
\* are not below zero
Conserved(st, f) ==
    /\ st.deposited_algo = f.in_algo - f.out_algo
    /\ st.deposited_usdc = f.in_usdc - f.out_usdc
    /\ st.deposited_algo >= 0
    /\ st.deposited_usdc >= 0

\* this step is a withdraw call
WithdrawCalled == Called /\ call'.method = "withdraw"

\* C36: a withdraw asking for more than the recorded deposit is rejected and
\* leaves deposited_algo, deposited_usdc and total_withdrawals as they
\* were; after every sequence of deposit and withdraw calls the recorded
\* balances equal the amounts deposited less the amounts withdrawn and are
\* not negative.  Puya contract and TEAL program.
C36_VaultConserved ==
    [][Called =>
          /\ (WithdrawCalled /\ Overdrawn(puya, call')
                => ~call'.puya_ok /\ VaultOf(puya') = VaultOf(puya))
          /\ (WithdrawCalled /\ Overdrawn(teal, call')
                => ~call'.teal_ok /\ VaultOf(teal') = VaultOf(teal))
          /\ Conserved(puya', flows'.puya)
          /\ Conserved(teal', flows'.teal)]_vars

\* after deposits and a withdrawal the creator asks for more ALGO than is
\* left, and both implementations refuse
C36_Witness ==
    /\ call.method = "withdraw" /\ call.sender = Creator /\ call.oc = "NoOp"
    /\ call.a1 > puya.deposited_algo /\ call.a1 > teal.deposited_algo
    /\ ~call.puya_ok /\ ~call.teal_ok
    /\ flows.puya.in_algo >= 2 /\ flows.puya.out_algo >= 1
    /\ flows.teal = flows.puya
    /\ puya.deposited_algo >= 1

\* C37: the TEAL program and the Puya contract are the same state machine:
\* started from the same state, they accept and reject the same calls and
\* hold the same value in every field after each of them.
C37_SameStateMachine ==
    /\ calls >= 1 => (call.puya_ok <=> call.teal_ok)
    /\ Fields(puya) = Fields(teal)
    /\ puya.status = teal.status

(***************************************************************************)
(* SpecRange: one rebalance from decision to the next reading of the       *)
(* position.  The price is any float the feed returns, here a whole number *)
(* of 1/10000 USD, so that 1000 * price need not be whole; the application *)
(* keeps whole thousandths, and the position read back is again in         *)
(* 1/10000 USD.  The engine holds fewer than ten samples throughout, where *)
(* evaluate compares and multiplies prices and is the same in any unit.    *)
(***************************************************************************)
\* 1/10000 USD in 1/1000 USD
FinePerMille == 10
\* 0.0050 USD
MaxFinePrice == 50

\* from 0.001 USD upward in steps of 0.0001, and 0.10, 0.18, 0.25, 0.30
FinePrices == (FinePerMille .. MaxFinePrice) \cup {1000, 1800, 2500, 3000}

\* int(x * 1000) of a float x given in 1/1000000 USD (price * 82): the
\* product of a whole number of thousandths may fall just below it
FineArg(x, below) ==
    LET unit == 100 * FinePerMille
    IN  IF below /\ x % unit = 0 THEN (x \div unit) - 1 ELSE x \div unit

\* read_position_state: state["lower_bound"] / 1000, in 1/10000 USD
FineRead(st) ==
    Pos(st.lower_bound * FinePerMille, st.upper_bound * FinePerMille,
        st.capital_usdc)

\* the cycle that finds the price: read_position_state, evaluate
RangeDecide ==
    /\ pc = "idle"
    /\ \E q \in FinePrices :
          /\ price' = q
          /\ Evaluate(clock + PollTicks, 0, FALSE, q, FineRead(chain))
    /\ position' = FineRead(chain)
    /\ pc' = IF decision'.action = "REBALANCE" THEN "decided" ELSE "held"
    /\ cycle' = cycle + 1
    /\ UNCHANGED <<dry_run, signed, tx_id, entries, chain, round, pool,
                   groups, loggedInCycle, waited>>
    /\ UNCHANGED <<contractVars, loggerVars, instanceVars, functionVars>>

\* build_rebalance_group's txn5 with int(new_lower * 1000) and
\* int(new_upper * 1000), submitted and confirmed with its group
RangeCommit ==
    /\ pc = "decided"
    /\ \E below \in BOOLEAN :
          LET t == [sender |-> Agent,
                    args |-> <<FineArg(NewLower(decision, price), below),
                               FineArg(NewUpper(decision, price), below)>>]
          IN  chain' = PuyaCall(chain, CommitCall(t), BlockTime).st
    /\ pc' = "confirmed"
    /\ UNCHANGED <<dry_run, cycle, position, price, signed, tx_id, entries,
                   round, pool, groups, loggedInCycle, waited>>
    /\ UNCHANGED <<engineVars, contractVars>>
    /\ UNCHANGED <<loggerVars, instanceVars, functionVars>>

\* a later cycle at the same price, the next one or the first one past the
\* cooldown
RangeReevaluate ==
    /\ pc = "confirmed"
    /\ \E delay \in {PollTicks, CooldownTicks} :
          Evaluate(clock + delay, 0, FALSE, price, FineRead(chain))
    /\ position' = FineRead(chain)
    /\ pc' = "reevaluated"
    /\ cycle' = cycle + 1
    /\ UNCHANGED <<dry_run, price, signed, tx_id, entries, chain, round, pool,
                   groups, loggedInCycle, waited>>
    /\ UNCHANGED <<contractVars, loggerVars, instanceVars, functionVars>>

RangeInit ==
    /\ EngineInit
    /\ ContractIdle
    /\ pc = "idle"
    /\ dry_run = FALSE
    /\ cycle = 0
    /\ position = NoPosition
    /\ price = 0
    /\ signed = <<>>
    /\ tx_id = "None"
    /\ entries = <<>>
    /\ chain = DeployedWithAgent
    /\ round = 0
    /\ pool = {}
    /\ groups = <<>>
    /\ loggedInCycle = 0
    /\ waited = 0
    /\ RestIdle

RangeNext ==
    \/ RangeDecide
    \/ RangeCommit
    \/ RangeReevaluate

SpecRange == RangeInit /\ [][RangeNext]_vars

(***************************************************************************)
(* Claims about the range a rebalance records                              *)
(***************************************************************************)
\* the rebalance decided at `price` is on chain and a later cycle has read
\* the position and evaluated the same price
RebalancedAndReread == pc = "reevaluated" /\ chain.total_rebalances = 1

\* C38: once the group of a rebalance decided at price p, 1000 * p >= 1, is
\* confirmed, the recorded lower and upper bound satisfy lower <= p <= upper:
\* the position the next cycle reads is in range at p, and p does not lead
\* to another out-of-range REBALANCE.
C38_NewRangeHoldsPrice ==
    RebalancedAndReread /\ price >= FinePerMille =>
        /\ chain.lower_bound * FinePerMille <= price
        /\ price <= chain.upper_bound * FinePerMille
        /\ position.lower_bound <= price /\ price <= position.upper_bound
        /\ ~(decision.action = "REBALANCE"
               /\ decision.reason.kind = "Out of range")

(***************************************************************************)
(* Claims about the execution id in the decision log                       *)
(***************************************************************************)
\* this step appends an entry to the decision log
EntryWritten == Len(entries') = Len(entries) + 1

\* the group of the cycle was handed to the network, wait_for_confirmation
\* returned for it, and it has taken effect as a whole
SubmittedAndConfirmed(gs, c) ==
    /\ c \in DOMAIN gs
    /\ gs[c].reported = "confirmed"
    /\ gs[c].applied = DOMAIN gs[c].signed

\* C39: in every entry monitoring_loop writes to the decision log, a tx_id
\* other than None means the logged action is REBALANCE and the group of
\* that cycle was submitted and confirmed; and in live mode every entry
\* whose action is REBALANCE carries a tx_id.
C39_ExecutionIdMeansConfirmed ==
    [][EntryWritten =>
          LET e == entries'[Len(entries')]
          IN  /\ e.tx_id # "None" =>
                    /\ e.action = "REBALANCE"
                    /\ SubmittedAndConfirmed(groups', cycle')
              /\ (~dry_run /\ e.action = "REBALANCE") => e.tx_id # "None"]_vars

\* live mode: one entry of a confirmed rebalance with its id, and one of a
\* cycle that rebalanced nothing, without
C39_Witness ==
    /\ ~dry_run
    /\ Len(entries) = 2
    /\ entries[1].action = "REBALANCE" /\ entries[1].tx_id # "None"
    /\ entries[2].action # "REBALANCE" /\ entries[2].tx_id = "None"
    /\ SubmittedAndConfirmed(groups, 1)

(***************************************************************************)
(* SpecRetry: monitoring_loop in live mode for longer than one cooldown.   *)
(* The price feed answers in every cycle with the price it returned first, *)
(* the position is read from the application, and the cycles are one poll  *)
(* interval apart; the second clock read of a REBALANCE may be a tick      *)
(* later than the first.  A cycle that decides REBALANCE builds its group  *)
(* and awaits submit_group in one step, with the ledger's verdict on the   *)
(* group as in SpecLoop.                                                   *)
(***************************************************************************)
MaxRetryCycles == 48

\* above and below the deployed range [0.140, 0.220], and above it by less
\* than the buffer
RetryPrices == {250, 100, 225}

\* the price the feed returns: any of RetryPrices at first, the same after
Fetched == IF price = 0 THEN RetryPrices ELSE {price}

RetryEvaluate ==
    /\ pc = "start"
    /\ cycle < MaxRetryCycles
    /\ \E drift \in {0, 1}, p \in Fetched :
        /\ position' = ReadPosition(chain, TRUE)
        /\ price' = p
        /\ Evaluate(clock, drift, FALSE, p, ReadPosition(chain, TRUE))
    /\ cycle' = cycle + 1
    /\ loggedInCycle' = 0
    /\ tx_id' = "None"
    /\ pc' = IF decision'.action = "REBALANCE" /\ ~dry_run THEN "build" ELSE "log"
    /\ UNCHANGED <<dry_run, signed, entries, chain, round, pool, groups, waited>>
    /\ UNCHANGED contractVars
    /\ UNCHANGED <<loggerVars, instanceVars, functionVars>>

\* what submit_group comes back with: the id once the group is confirmed,
\* None when the send or the wait raised, and None for a group that is
\* confirmed only after the wait gave up
SubmitOutcomes == {"confirmed", "failed", "late"}

\* build_rebalance_group and submit_group, and the `if tx_id` that follows
RetrySubmit ==
    /\ pc = "build"
    /\ \E below \in BOOLEAN, outcome \in SubmitOutcomes :
        LET batch == build_rebalance_group(NewLower(decision, price),
                                           NewUpper(decision, price), below,
                                           round)
            applied == Applied(batch, chain, TRUE, BlockTime)
            landed == outcome # "failed" /\ applied = DOMAIN batch
            returned == outcome = "confirmed" /\ landed
        IN  /\ signed' = batch
            /\ chain' = IF landed THEN Ledger(batch, chain, TRUE, BlockTime)
                        ELSE chain
            /\ groups' = (cycle :>
                             [signed |-> batch,
                              reported |-> IF returned THEN "confirmed"
                                           ELSE "failed",
                              applied |-> IF landed THEN applied ELSE {}])
                         @@ groups
            /\ IF returned
               THEN /\ tx_id' = "TXID"
                    /\ pc' = "log"
                    /\ UNCHANGED engineVars
               ELSE ReportFailure
    /\ UNCHANGED <<dry_run, cycle, position, price, entries, round, pool,
                   loggedInCycle, waited>>
    /\ UNCHANGED contractVars
    /\ UNCHANGED <<loggerVars, instanceVars, functionVars>>

RetryInit ==
    /\ EngineInit
    /\ ContractIdle
    /\ pc = "start"
    /\ dry_run = FALSE
    /\ cycle = 0
    /\ position = NoPosition
    /\ price = 0
    /\ signed = <<>>
    /\ tx_id = "None"
    /\ entries = <<>>
    /\ chain \in {Deployed, DeployedWithAgent}
    /\ round = 0
    /\ pool = {}
    /\ groups = <<>>
    /\ loggedInCycle = 0
    /\ waited = 0
    /\ RestIdle

RetryNext ==
    \/ RetryEvaluate
    \/ RetrySubmit
    \/ Log
    \/ Sleep

SpecRetry == RetryInit /\ [][RetryNext]_vars

\* as LoopFairness: the sleep ends and the awaited calls return or raise
RetryFairness ==
    /\ WF_vars(Sleep)
    /\ WF_vars(RetryEvaluate)
    /\ WF_vars(RetrySubmit)
    /\ WF_vars(Log)

SpecRetryLive == SpecRetry /\ RetryFairness

(***************************************************************************)
(* Claims about the retry of a failed rebalance                            *)
(***************************************************************************)
\* some group handed to submit_group has been reported failed
SomeFailed(gs) == \E g \in DOMAIN gs : gs[g].reported = "failed"

\* the price is outside the range and at least the buffer away from both
\* boundaries
OutsideRangeAndBuffer(p, pos) ==
    /\ p < pos.lower_bound \/ p > pos.upper_bound
    /\ 100 * Abs(p - pos.lower_bound) >= 3 * pos.lower_bound
    /\ 100 * Abs(p - pos.upper_bound) >= 3 * pos.upper_bound

\* projected_weekly > swap_cost * 2.5
WorthIt(pos) ==
    2 * (DailyFee(pos.capital_usdc) * 7)
        > 5 * estimate_swap_cost(pos.capital_usdc, DefaultSlippageBp)

\* this step is an evaluate call made after a submission has failed, with
\* the price still outside range and buffer and the rebalance worth it
EvaluatedAfterFailure ==
    /\ evals' = evals + 1
    /\ SomeFailed(groups)
    /\ OutsideRangeAndBuffer(price', position')
    /\ WorthIt(position')

\* this step hands a group to submit_group
GroupSubmitted == DOMAIN groups' # DOMAIN groups

\* nothing is decided or submitted before the cooldown is over, and the
\* first evaluation from then on decides REBALANCE
RetryAtCooldown ==
    /\ EvaluatedAfterFailure =>
          (decision'.action = "REBALANCE"
              <=> evalNow' - last_rebalance_time >= CooldownTicks)
    /\ GroupSubmitted /\ SomeFailed(groups) =>
          /\ decision.action = "REBALANCE"
          /\ \A i \in 1..(Len(rebalancedAt) - 1) :
                evalNow - rebalancedAt[i] >= CooldownTicks

\* the submission of cycle c has just failed
FailedIn(c) ==
    /\ cycle = c
    /\ pc = "log"
    /\ c \in DOMAIN groups
    /\ groups[c].reported = "failed"

\* a later cycle has decided REBALANCE again
RetriedAfter(c) ==
    /\ cycle > c
    /\ decision.action = "REBALANCE"
    /\ evalNow - rebalancedAt[Len(rebalancedAt) - 1] >= CooldownTicks

\* a later cycle has found the price inside the range or the buffer
NoLongerOutside(c) ==
    cycle > c /\ pc # "start" /\ ~OutsideRangeAndBuffer(price, position)

\* the cycles that are followed by a whole cooldown of cycles
RetryCycles == 1..(MaxRetryCycles - (CooldownTicks \div PollTicks) - 1)

\* C40: after the submission of a REBALANCE decision has failed, and while
\* the price stays outside range and buffer with the rebalance worth its
\* cost, no group is submitted and no REBALANCE is decided until
\* cooldownSeconds have passed since the failed decision, the first cycle
\* evaluated from then on decides REBALANCE, and, the cycles continuing,
\* that cycle comes.
C40_RetriedAfterCooldown ==
    /\ [][RetryAtCooldown]_vars
    /\ \A c \in RetryCycles :
          FailedIn(c) ~> (RetriedAfter(c) \/ NoLongerOutside(c))

\* the first submission failed, nothing reached the application, and the
\* cycle one cooldown and a tick later has decided REBALANCE again
C40_Witness ==
    /\ 1 \in DOMAIN groups /\ groups[1].reported = "failed"
    /\ chain.total_rebalances = 0
    /\ Len(rebalancedAt) = 2
    /\ rebalancedAt[2] - rebalancedAt[1] > CooldownTicks
    /\ decision.action = "REBALANCE"
    /\ pc = "build"

====
